---- MODULE Spec2Model ----
(***************************************************************************)
(* A model of the hive scheduling substrate of Trellis:                    *)
(*   - CellDAG        (.trellis/scripts/hive/cell_dag.py)                  *)
(*   - WorkerPool     (.trellis/scripts/hive/worker_pool.py)               *)
(*   - QueenScheduler (.trellis/scripts/hive/queen_scheduler.py)           *)
(* Python dicts are modelled as a function plus the sequence of its keys   *)
(* in insertion order; Python lists as sequences; an optional value as the *)
(* empty sequence (None) or a one-element sequence.  Wall-clock values     *)
(* (started_at, completed_at, last_heartbeat) are abstracted away.         *)
(***************************************************************************)
EXTENDS Integers, Sequences, FiniteSets, TLC

VARIABLES
    dag,          \* the CellDAG object: nodes, key order, tracking sets, caches
    dag_call,     \* the last CellDAG call: its name, arguments, outcome and result
    dag_ok,       \* TRUE while every mutating CellDAG call so far returned without error
    pool,         \* the WorkerPool object: workers, counter, task queue
    pool_call,    \* the last WorkerPool call and what it returned
    pool_hist,    \* history of the bindings made by assign_cell (for the claims)
    queen,        \* the QueenScheduler object: state, workers, dispatch lock, cell store
    threads,      \* the dispatching threads: program counter and locals of each
    queen_hist,   \* history of the assignments returned by dispatch_workers
    bus,          \* the pheromone bus files: lock file, shared state file, clock
    procs,        \* the processes on the bus: program counter and locals of each
    drone         \* a cross-validation: the drones' scores and the report made of them

vars == <<dag, dag_call, dag_ok, pool, pool_call, pool_hist, queen, threads, queen_hist,
          bus, procs, drone>>
dagVars == <<dag, dag_call, dag_ok>>
poolVars == <<pool, pool_call, pool_hist>>
queenVars == <<queen, threads, queen_hist>>
restVars == <<bus, procs, drone>>

(***************************************************************************)
(* Bounds of the model.                                                    *)
(***************************************************************************)
MaxDeps == 2          \* longest dependency list passed to add_cell / update_dependencies
MaxPriority == 1      \* priorities are drawn from 0..MaxPriority
MaxDuration == 1      \* estimated durations are drawn from 0..MaxDuration
MaxEdges == 3         \* most dependency entries in the graph (construction and ordering)
FewEdges == 2         \* most dependency entries in the graph (layers, priorities, durations, execution)
MaxExecDeps == 1      \* longest dependency list of the graphs on which execution is tracked
MaxWorkers == 2       \* max_workers of the pool
MaxSpawn == 3         \* most workers a pool spawns in one run
MaxQueue == 1         \* most tasks waiting in the task queue
MaxPoolThreads == 2   \* threads that may be inside submit_task at one time
MaxQueenWorkers == 2  \* max_workers of the scheduler
MaxDispatchThreads == 2   \* threads that call dispatch_workers
MaxDispatchCalls == 2     \* dispatch_workers calls made by one thread

CellIds == {"a", "b", "c"}

DEFAULT_ESTIMATED_DURATION == 60

MinWorkers == 1       \* min_workers of the pool (the constructor's default)

(***************************************************************************)
(* Sequence helpers (Python list operations).                              *)
(***************************************************************************)
Range(s) == {s[i] : i \in 1..Len(s)}

Contains(s, x) == \E i \in 1..Len(s) : s[i] = x

Count(s, x) == Cardinality({i \in 1..Len(s) : s[i] = x})

IndexOf(s, x) == CHOOSE i \in 1..Len(s) : s[i] = x /\ \A j \in 1..(i - 1) : s[j] # x

\* list.remove(x) on a list that holds x: drops the first occurrence
RemoveFirst(s, x) ==
    LET i == IndexOf(s, x)
    IN  SubSeq(s, 1, i - 1) \o SubSeq(s, i + 1, Len(s))

\* [x] * n
Repeat(x, n) == [i \in 1..n |-> x]

SeqsUpTo(S, n) == UNION {[1..k -> S] : k \in 0..n}

NoDup(s) == \A i, j \in 1..Len(s) : i # j => s[i] # s[j]

Max(S) == CHOOSE x \in S : \A y \in S : y <= x

Min2(x, y) == IF x <= y THEN x ELSE y

\* restriction of a function to a subset of its domain (del d[k])
Without(f, k) == [x \in (DOMAIN f) \ {k} |-> f[x]]

\* d[k] = v on a dict given as a function
Put(f, k, v) == [x \in (DOMAIN f) \cup {k} |-> IF x = k THEN v ELSE f[x]]

(***************************************************************************)
(* CellNode and CellDAG construction (cell_dag.py).                        *)
(***************************************************************************)
CellStates == {"pending", "ready", "running", "completed", "failed", "blocked"}

CellNode(dependencies, priority, estimated_duration) ==
    [dependencies |-> dependencies, dependents |-> <<>>, state |-> "pending",
     priority |-> priority, estimated_duration |-> estimated_duration, level |-> 0]

\* CellDAG.__init__
NewDAG ==
    [nodes |-> <<>>, order |-> <<>>,
     completed_ids |-> {}, running_ids |-> {}, failed_ids |-> {},
     topological_order |-> <<>>, parallel_layers |-> <<>>]

\* a variant of _invalidate_cache that keeps the cached results
invalidate_cache_keep(D) == D

invalidate_cache(D) == [D EXCEPT !.topological_order = <<>>, !.parallel_layers = <<>>]

\* the outcome of a call: the object afterwards, the exception raised ("" for
\* none) and the value returned
Outcome(D, raised, result) == [dag |-> D, raised |-> raised, result |-> result]

add_cell(D, cell_id, dependencies, priority, estimated_duration) ==
    IF cell_id \in DOMAIN D.nodes
    THEN Outcome(D, "ValueError", <<>>)
    ELSE
    LET dur == IF estimated_duration <= 0 THEN DEFAULT_ESTIMATED_DURATION
               ELSE estimated_duration
        n0 == Put(D.nodes, cell_id, CellNode(dependencies, priority, dur))
        ord == Append(D.order, cell_id)
        \* for dep_id in node.dependencies: nodes[dep_id].dependents.append(cell_id)
        n1 == [x \in DOMAIN n0 |->
                 [n0[x] EXCEPT !.dependents = @ \o Repeat(cell_id, Count(dependencies, x))]]
        \* for existing_id in nodes: backfill the new node's dependents
        back == SelectSeq(ord, LAMBDA e :
                    /\ Contains(n1[e].dependencies, cell_id)
                    /\ ~Contains(n1[e].dependents, cell_id))
        n2 == [n1 EXCEPT ![cell_id].dependents = @ \o back]
    IN  Outcome(invalidate_cache([D EXCEPT !.nodes = n2, !.order = ord]), "", <<>>)

\* first loop of remove_cell: list.remove raises ValueError when cell_id is absent
RECURSIVE remove_from_dependents(_, _, _, _)
remove_from_dependents(ns, cell_id, deps, i) ==
    IF i > Len(deps) THEN [nodes |-> ns, raised |-> ""]
    ELSE LET dep_id == deps[i] IN
         IF dep_id \notin DOMAIN ns
         THEN remove_from_dependents(ns, cell_id, deps, i + 1)
         ELSE IF ~Contains(ns[dep_id].dependents, cell_id)
         THEN [nodes |-> ns, raised |-> "ValueError"]
         ELSE remove_from_dependents(
                  [ns EXCEPT ![dep_id].dependents = RemoveFirst(@, cell_id)],
                  cell_id, deps, i + 1)

\* second loop of remove_cell
RECURSIVE remove_from_dependencies(_, _, _, _)
remove_from_dependencies(ns, cell_id, dependents, i) ==
    IF i > Len(dependents) THEN [nodes |-> ns, raised |-> ""]
    ELSE LET dependent_id == dependents[i] IN
         IF dependent_id \notin DOMAIN ns
         THEN remove_from_dependencies(ns, cell_id, dependents, i + 1)
         ELSE IF ~Contains(ns[dependent_id].dependencies, cell_id)
         THEN [nodes |-> ns, raised |-> "ValueError"]
         ELSE remove_from_dependencies(
                  [ns EXCEPT ![dependent_id].dependencies = RemoveFirst(@, cell_id)],
                  cell_id, dependents, i + 1)

remove_cell(D, cell_id) ==
    IF cell_id \notin DOMAIN D.nodes
    THEN Outcome(D, "", <<FALSE>>)
    ELSE
    LET r1 == remove_from_dependents(D.nodes, cell_id, D.nodes[cell_id].dependencies, 1)
        r2 == remove_from_dependencies(r1.nodes, cell_id, r1.nodes[cell_id].dependents, 1)
    IN  IF r1.raised # "" THEN Outcome([D EXCEPT !.nodes = r1.nodes], r1.raised, <<>>)
        ELSE IF r2.raised # "" THEN Outcome([D EXCEPT !.nodes = r2.nodes], r2.raised, <<>>)
        ELSE Outcome(invalidate_cache(
                 [D EXCEPT !.nodes = Without(r2.nodes, cell_id),
                           !.order = SelectSeq(D.order, LAMBDA x : x # cell_id)]),
                 "", <<TRUE>>)

\* "remove old dependents" loop of update_dependencies (guarded: never raises)
RECURSIVE discard_from_dependents(_, _, _, _)
discard_from_dependents(ns, cell_id, deps, i) ==
    IF i > Len(deps) THEN ns
    ELSE LET dep_id == deps[i] IN
         IF dep_id \in DOMAIN ns /\ Contains(ns[dep_id].dependents, cell_id)
         THEN discard_from_dependents(
                  [ns EXCEPT ![dep_id].dependents = RemoveFirst(@, cell_id)],
                  cell_id, deps, i + 1)
         ELSE discard_from_dependents(ns, cell_id, deps, i + 1)

update_dependencies(D, cell_id, dependencies) ==
    IF cell_id \notin DOMAIN D.nodes
    THEN Outcome(D, "CellNotFoundError", <<>>)
    ELSE
    LET n1 == discard_from_dependents(D.nodes, cell_id, D.nodes[cell_id].dependencies, 1)
        n2 == [n1 EXCEPT ![cell_id].dependencies = dependencies]
        n3 == [x \in DOMAIN n2 |->
                 [n2[x] EXCEPT !.dependents = @ \o Repeat(cell_id, Count(dependencies, x))]]
    IN  Outcome(invalidate_cache([D EXCEPT !.nodes = n3]), "", <<>>)

(***************************************************************************)
(* Graph analysis (cell_dag.py).                                           *)
(***************************************************************************)
\* reconstruction of the cycle path inside dfs: cycle = [dep_id]; walk the
\* parent map from node_id up to dep_id; append dep_id; reverse
RECURSIVE cycle_walk(_, _, _, _)
cycle_walk(parent, current, dep_id, cycle) ==
    IF current = dep_id THEN cycle
    ELSE IF current \notin DOMAIN parent THEN Append(cycle, current)
    ELSE cycle_walk(parent, parent[current], dep_id, Append(cycle, current))

Reverse(s) == [i \in 1..Len(s) |-> s[Len(s) + 1 - i]]

\* the reconstruction without the final reversal
cycle_path_forward(parent, node_id, dep_id) ==
    Append(cycle_walk(parent, node_id, dep_id, <<dep_id>>), dep_id)

cycle_path(parent, node_id, dep_id) ==
    Reverse(Append(cycle_walk(parent, node_id, dep_id, <<dep_id>>), dep_id))

\* dfs(node_id) with its closure variables visited, rec_stack, parent passed
\* along in st; st.result is <<>> (None) or <<cycle>>
RECURSIVE dfs(_, _, _), dfs_deps(_, _, _, _)
dfs(ns, node_id, st) ==
    LET st1 == [st EXCEPT !.visited = @ \cup {node_id}, !.rec_stack = @ \cup {node_id}]
        st2 == IF node_id \in DOMAIN ns THEN dfs_deps(ns, node_id, 1, st1) ELSE st1
    IN  IF st2.result # <<>> THEN st2
        ELSE [st2 EXCEPT !.rec_stack = @ \ {node_id}]

dfs_deps(ns, node_id, i, st) ==
    IF i > Len(ns[node_id].dependencies) THEN st
    ELSE LET dep_id == ns[node_id].dependencies[i] IN
         IF dep_id \notin st.visited
         THEN LET s == dfs(ns, dep_id, [st EXCEPT !.parent = Put(@, dep_id, node_id)])
              IN  IF s.result # <<>> THEN s ELSE dfs_deps(ns, node_id, i + 1, s)
         ELSE IF dep_id \in st.rec_stack
         THEN [st EXCEPT !.result = <<cycle_path(st.parent, node_id, dep_id)>>]
         ELSE dfs_deps(ns, node_id, i + 1, st)

RECURSIVE detect_cycle_from(_, _, _, _)
detect_cycle_from(ns, ord, i, st) ==
    IF i > Len(ord) THEN st
    ELSE IF ord[i] \in st.visited THEN detect_cycle_from(ns, ord, i + 1, st)
    ELSE LET s == dfs(ns, ord[i], st)
         IN  IF s.result # <<>> THEN s ELSE detect_cycle_from(ns, ord, i + 1, s)

\* a variant of detect_cycle that starts the search at the first node only
detect_cycle_first(D) ==
    detect_cycle_from(D.nodes, IF D.order = <<>> THEN <<>> ELSE <<Head(D.order)>>, 1,
        [visited |-> {}, rec_stack |-> {}, parent |-> <<>>, result |-> <<>>]).result

\* detect_cycle(): <<>> for None, else <<cycle path>>
detect_cycle(D) ==
    detect_cycle_from(D.nodes, D.order, 1,
        [visited |-> {}, rec_stack |-> {}, parent |-> <<>>, result |-> <<>>]).result

\* sorted(queue, key=lambda x: -nodes[x].priority): a stable sort
RECURSIVE sort_by_priority(_, _)
sort_by_priority(ns, q) ==
    IF q = <<>> THEN <<>>
    ELSE LET m == Max({ns[q[i]].priority : i \in 1..Len(q)})
         IN  SelectSeq(q, LAMBDA x : ns[x].priority = m)
               \o sort_by_priority(ns, SelectSeq(q, LAMBDA x : ns[x].priority # m))

\* the "for dep_id in node.dependents" loop of Kahn's algorithm; in_degree is a
\* defaultdict(int), modelled as a function on every id
RECURSIVE kahn_update(_, _, _, _)
kahn_update(dependents, i, in_degree, queue) ==
    IF i > Len(dependents) THEN [in_degree |-> in_degree, queue |-> queue]
    ELSE LET dep_id == dependents[i]
             deg == [in_degree EXCEPT ![dep_id] = @ - 1]
         IN  kahn_update(dependents, i + 1, deg,
                         IF deg[dep_id] = 0 THEN Append(queue, dep_id) ELSE queue)

RECURSIVE kahn_loop(_, _, _, _)
kahn_loop(ns, in_degree, queue, result) ==
    IF queue = <<>> THEN result
    ELSE LET q == sort_by_priority(ns, queue)
             node_id == Head(q)
             u == kahn_update(ns[node_id].dependents, 1, in_degree, Tail(q))
         IN  kahn_loop(ns, u.in_degree, u.queue, Append(result, node_id))

kahn(D) ==
    LET ns == D.nodes
        ids == DOMAIN ns \cup UNION {Range(ns[x].dependents) : x \in DOMAIN ns}
        in_degree == [x \in ids |-> IF x \in DOMAIN ns THEN Len(ns[x].dependencies) ELSE 0]
        queue == SelectSeq(D.order, LAMBDA x : Len(ns[x].dependencies) = 0)
    IN  kahn_loop(ns, in_degree, queue, <<>>)

topological_sort(D) ==
    IF D.topological_order # <<>>
    THEN Outcome(D, "", D.topological_order[1])
    ELSE LET cycle == detect_cycle(D) IN
         IF cycle # <<>> THEN Outcome(D, "CycleDetectedError", cycle[1])
         ELSE LET result == kahn(D)
              IN  Outcome([D EXCEPT !.topological_order = <<result>>], "", result)

\* the "for dep_id in node.dependents" loop of the level BFS; levels is a dict:
\* lv.level with its keys in insertion order lv.keys
RECURSIVE bfs_visit(_, _, _, _, _)
bfs_visit(dependents, i, node_id, lv, queue) ==
    IF i > Len(dependents) THEN [lv |-> lv, queue |-> queue]
    ELSE LET dep_id == dependents[i]
             current_level == IF dep_id \in DOMAIN lv.level THEN lv.level[dep_id] ELSE -1
             new_level == lv.level[node_id] + 1
         IN  IF new_level > current_level
             THEN bfs_visit(dependents, i + 1, node_id,
                      [lv EXCEPT !.level = Put(@, dep_id, new_level),
                                 !.keys = IF dep_id \in DOMAIN lv.level THEN @
                                          ELSE Append(@, dep_id)],
                      Append(queue, dep_id))
             ELSE bfs_visit(dependents, i + 1, node_id, lv, queue)

RECURSIVE bfs_levels(_, _, _)
bfs_levels(ns, lv, queue) ==
    IF queue = <<>> THEN lv
    ELSE LET node_id == Head(queue) IN
         IF node_id \notin DOMAIN ns THEN [lv EXCEPT !.raised = "KeyError"]
         ELSE LET r == bfs_visit(ns[node_id].dependents, 1, node_id, lv, Tail(queue))
              IN  bfs_levels(ns, r.lv, r.queue)

get_parallel_layers(D) ==
    IF D.parallel_layers # <<>>
    THEN Outcome(D, "", D.parallel_layers[1])
    ELSE LET cycle == detect_cycle(D) IN
         IF cycle # <<>> THEN Outcome(D, "CycleDetectedError", cycle[1])
         ELSE
         LET ns == D.nodes
             roots == SelectSeq(D.order, LAMBDA x : Len(ns[x].dependencies) = 0)
             lv == bfs_levels(ns,
                       [level |-> [x \in Range(roots) |-> 0], keys |-> roots, raised |-> ""],
                       roots)
             max_level == IF lv.keys = <<>> THEN 0
                          ELSE Max({lv.level[x] : x \in DOMAIN lv.level})
             layers == [k \in 1..(max_level + 1) |->
                          sort_by_priority(ns,
                              SelectSeq(lv.keys, LAMBDA x : lv.level[x] = k - 1))]
             n1 == [x \in DOMAIN ns |->
                      IF x \in DOMAIN lv.level THEN [ns[x] EXCEPT !.level = lv.level[x]]
                      ELSE ns[x]]
         IN  IF lv.raised # "" THEN Outcome(D, lv.raised, <<>>)
             ELSE Outcome([D EXCEPT !.nodes = n1, !.parallel_layers = <<layers>>],
                          "", layers)

\* the "for dep_id in node.dependencies" loop of the longest-path computation
RECURSIVE relax_deps(_, _, _, _, _)
relax_deps(deps, i, node_id, duration, dp) ==
    IF i > Len(deps) THEN dp
    ELSE LET dep_id == deps[i] IN
         IF dep_id \notin DOMAIN dp.dist THEN [dp EXCEPT !.raised = "KeyError"]
         ELSE IF dp.dist[dep_id] + duration > dp.dist[node_id]
         THEN relax_deps(deps, i + 1, node_id, duration,
                  [dp EXCEPT !.dist[node_id] = dp.dist[dep_id] + duration,
                             !.pred[node_id] = <<dep_id>>])
         ELSE relax_deps(deps, i + 1, node_id, duration, dp)

RECURSIVE longest_paths(_, _, _, _)
longest_paths(ns, order, i, dp) ==
    IF i > Len(order) \/ dp.raised # "" THEN dp
    ELSE LET node_id == order[i]
             duration == IF ns[node_id].estimated_duration <= 0
                         THEN DEFAULT_ESTIMATED_DURATION
                         ELSE ns[node_id].estimated_duration
         IN  longest_paths(ns, order, i + 1,
                 relax_deps(ns[node_id].dependencies, 1, node_id, duration, dp))

\* path = [end_node, pred[end_node], ...], not yet reversed
RECURSIVE path_back(_, _)
path_back(pred, current) ==
    IF pred[current] = <<>> THEN <<current>>
    ELSE <<current>> \o path_back(pred, pred[current][1])

get_critical_path(D) ==
    IF D.order = <<>> THEN Outcome(D, "", <<>>)
    ELSE LET cycle == detect_cycle(D) IN
         IF cycle # <<>> THEN Outcome(D, "CycleDetectedError", cycle[1])
         ELSE
         LET ns == D.nodes
             ts == topological_sort(D)
             dp == longest_paths(ns, ts.result, 1,
                       [dist |-> [x \in DOMAIN ns |-> 0],
                        pred |-> [x \in DOMAIN ns |-> <<>>], raised |-> ""])
             best == Max({dp.dist[x] : x \in DOMAIN ns})
             \* max(dist.keys(), key=...): the first key that reaches the maximum
             end_node == SelectSeq(D.order, LAMBDA x : dp.dist[x] = best)[1]
         IN  IF dp.raised # "" THEN Outcome(ts.dag, dp.raised, <<>>)
             ELSE Outcome(ts.dag, "", Reverse(path_back(dp.pred, end_node)))

(***************************************************************************)
(* Execution state (cell_dag.py).                                          *)
(***************************************************************************)
\* CellNode.is_ready
is_ready(node, completed_ids) ==
    \A i \in 1..Len(node.dependencies) : node.dependencies[i] \in completed_ids

\* CellNode.can_start
can_start(D, node_id) ==
    /\ D.nodes[node_id].state = "pending"
    /\ is_ready(D.nodes[node_id], D.completed_ids)
    /\ node_id \notin D.running_ids

get_ready_cells(D) ==
    sort_by_priority(D.nodes, SelectSeq(D.order, LAMBDA x : can_start(D, x)))

\* mark_running without the state test for blocked cells
mark_running_blocked(D, cell_id) ==
    IF cell_id \notin DOMAIN D.nodes THEN Outcome(D, "", <<FALSE>>)
    ELSE IF D.nodes[cell_id].state \notin {"pending", "blocked"}
    THEN Outcome(D, "", <<FALSE>>)
    ELSE Outcome([D EXCEPT !.nodes[cell_id].state = "running",
                           !.running_ids = @ \cup {cell_id}], "", <<TRUE>>)

mark_running(D, cell_id) ==
    IF cell_id \notin DOMAIN D.nodes THEN Outcome(D, "", <<FALSE>>)
    ELSE IF D.nodes[cell_id].state # "pending" THEN Outcome(D, "", <<FALSE>>)
    ELSE Outcome([D EXCEPT !.nodes[cell_id].state = "running",
                           !.running_ids = @ \cup {cell_id}], "", <<TRUE>>)

mark_completed(D, cell_id) ==
    IF cell_id \notin DOMAIN D.nodes THEN Outcome(D, "", <<FALSE>>)
    ELSE Outcome([D EXCEPT !.nodes[cell_id].state = "completed",
                           !.running_ids = @ \ {cell_id},
                           !.completed_ids = @ \cup {cell_id}], "", <<TRUE>>)

\* the "for dep_id in node.dependents" loop of _propagate_block
RECURSIVE block_dependents(_, _, _, _)
block_dependents(dependents, i, ns, queue) ==
    IF i > Len(dependents) THEN [nodes |-> ns, queue |-> queue]
    ELSE LET dep_id == dependents[i] IN
         IF dep_id \in DOMAIN ns /\ ns[dep_id].state = "pending"
         THEN block_dependents(dependents, i + 1,
                  [ns EXCEPT ![dep_id].state = "blocked"], Append(queue, dep_id))
         ELSE block_dependents(dependents, i + 1, ns, queue)

RECURSIVE propagate_loop(_, _, _)
propagate_loop(ns, queue, visited) ==
    IF queue = <<>> THEN ns
    ELSE LET current_id == Head(queue) IN
         IF current_id \in visited THEN propagate_loop(ns, Tail(queue), visited)
         ELSE IF current_id \notin DOMAIN ns
         THEN propagate_loop(ns, Tail(queue), visited \cup {current_id})
         ELSE LET r == block_dependents(ns[current_id].dependents, 1, ns, Tail(queue))
              IN  propagate_loop(r.nodes, r.queue, visited \cup {current_id})

\* CellDAG._propagate_block
propagate_block(ns, cell_id) == propagate_loop(ns, <<cell_id>>, {})

mark_failed(D, cell_id) ==
    IF cell_id \notin DOMAIN D.nodes THEN Outcome(D, "", <<FALSE>>)
    ELSE LET n1 == [D.nodes EXCEPT ![cell_id].state = "failed"]
         IN  Outcome([D EXCEPT !.nodes = propagate_block(n1, cell_id),
                               !.running_ids = @ \ {cell_id},
                               !.failed_ids = @ \cup {cell_id}], "", <<TRUE>>)

reset_cell(D, cell_id) ==
    IF cell_id \notin DOMAIN D.nodes THEN Outcome(D, "", <<FALSE>>)
    ELSE Outcome([D EXCEPT !.nodes[cell_id].state = "pending",
                           !.running_ids = @ \ {cell_id},
                           !.completed_ids = @ \ {cell_id},
                           !.failed_ids = @ \ {cell_id}], "", <<TRUE>>)

(***************************************************************************)
(* Serialization (cell_dag.py).  The document holds, per node in key       *)
(* order, its dependencies, state, priority, estimated_duration and level, *)
(* and the three id sets; dependents and caches are not written.           *)
(***************************************************************************)
to_dict(D) ==
    [nodes |-> [x \in DOMAIN D.nodes |->
                  [dependencies |-> D.nodes[x].dependencies,
                   state |-> D.nodes[x].state,
                   priority |-> D.nodes[x].priority,
                   estimated_duration |-> D.nodes[x].estimated_duration,
                   level |-> D.nodes[x].level]],
     keys |-> D.order,
     completed_ids |-> D.completed_ids,
     running_ids |-> D.running_ids,
     failed_ids |-> D.failed_ids]

\* the "for node_id, node_data in data['nodes'].items()" loop of from_dict
RECURSIVE from_dict_nodes(_, _, _)
from_dict_nodes(data, i, D) ==
    IF i > Len(data.keys) THEN D
    ELSE LET node_id == data.keys[i]
             node_data == data.nodes[node_id]
             added == add_cell(D, node_id, node_data.dependencies, node_data.priority,
                               node_data.estimated_duration).dag
         IN  from_dict_nodes(data, i + 1,
                 [added EXCEPT !.nodes[node_id].state = node_data.state,
                               !.nodes[node_id].level = node_data.level])

from_dict(data) ==
    [from_dict_nodes(data, 1, NewDAG) EXCEPT
        !.completed_ids = data.completed_ids,
        !.running_ids = data.running_ids,
        !.failed_ids = data.failed_ids]

(***************************************************************************)
(* CellDAG calls as actions.  dag_call records the call just made; limit   *)
(* bounds the number of dependency entries the graph may hold.             *)
(***************************************************************************)
DepLists == SeqsUpTo(CellIds, MaxDeps)
Priorities == 0..MaxPriority
Durations == 0..MaxDuration

Call(op, raised) == [op |-> op, raised |-> raised]

RECURSIVE SumLen(_, _)
SumLen(ns, ids) ==
    IF ids = {} THEN 0
    ELSE LET x == CHOOSE y \in ids : TRUE
         IN  Len(ns[x].dependencies) + SumLen(ns, ids \ {x})

\* the number of dependency entries in the graph
EdgeCount(D) == SumLen(D.nodes, DOMAIN D.nodes)

DagStep(limit, op, r, mutating) ==
    /\ EdgeCount(r.dag) <= limit
    /\ dag' = r.dag
    /\ dag_call' = Call(op, r.raised)
    /\ dag_ok' = (dag_ok /\ (mutating => r.raised = ""))
    /\ UNCHANGED <<poolVars, queenVars, restVars>>

AddCell(limit, cell_id, dependencies, priority, estimated_duration) ==
    DagStep(limit, "add_cell",
            add_cell(dag, cell_id, dependencies, priority, estimated_duration), TRUE)

UpdateDependencies(limit, cell_id, dependencies) ==
    DagStep(limit, "update_dependencies",
            update_dependencies(dag, cell_id, dependencies), TRUE)

RemoveCell(limit, cell_id) ==
    DagStep(limit, "remove_cell", remove_cell(dag, cell_id), TRUE)

TopologicalSort(limit) ==
    DagStep(limit, "topological_sort", topological_sort(dag), FALSE)

GetParallelLayers(limit) ==
    DagStep(limit, "get_parallel_layers", get_parallel_layers(dag), FALSE)

GetCriticalPath(limit) ==
    DagStep(limit, "get_critical_path", get_critical_path(dag), FALSE)

MarkRunning(limit, cell_id) ==
    DagStep(limit, "mark_running", mark_running(dag, cell_id), FALSE)

MarkCompleted(limit, cell_id) ==
    DagStep(limit, "mark_completed", mark_completed(dag, cell_id), FALSE)

MarkFailed(limit, cell_id) ==
    DagStep(limit, "mark_failed", mark_failed(dag, cell_id), FALSE)

ResetCell(limit, cell_id) ==
    DagStep(limit, "reset_cell", reset_cell(dag, cell_id), FALSE)

\* no process on the pheromone bus
RestInit == bus = <<>> /\ procs = <<>> /\ drone = <<>>

DagInit ==
    /\ RestInit
    /\ dag = NewDAG
    /\ dag_call = Call("init", "")
    /\ dag_ok = TRUE

IdleRest ==
    /\ pool = <<>> /\ pool_call = <<>> /\ pool_hist = <<>>
    /\ queen = <<>> /\ threads = <<>> /\ queen_hist = <<>>

InitGraph == DagInit /\ IdleRest

\* the three structural mutators with default priority and duration
Mutators(limit) ==
    \/ \E id \in CellIds, deps \in DepLists :
           AddCell(limit, id, deps, 0, DEFAULT_ESTIMATED_DURATION)
    \/ \E id \in CellIds, deps \in DepLists : UpdateDependencies(limit, id, deps)
    \/ \E id \in CellIds : RemoveCell(limit, id)

\* graph construction with the ordering and path queries
NextGraph ==
    \/ Mutators(MaxEdges)
    \/ TopologicalSort(MaxEdges)
    \/ GetCriticalPath(MaxEdges)

SpecGraph == InitGraph /\ [][NextGraph]_vars

\* graph construction with all three queries, the layer query included
NextLayers ==
    \/ Mutators(FewEdges)
    \/ TopologicalSort(FewEdges)
    \/ GetParallelLayers(FewEdges)
    \/ GetCriticalPath(FewEdges)

SpecLayers == InitGraph /\ [][NextLayers]_vars

\* graph construction with varying priorities, and the ordering query
NextOrder ==
    \/ \E id \in CellIds, deps \in DepLists, p \in Priorities :
           AddCell(FewEdges, id, deps, p, DEFAULT_ESTIMATED_DURATION)
    \/ \E id \in CellIds, deps \in DepLists : UpdateDependencies(FewEdges, id, deps)
    \/ \E id \in CellIds : RemoveCell(FewEdges, id)
    \/ TopologicalSort(FewEdges)

SpecOrder == InitGraph /\ [][NextOrder]_vars

\* graph construction with varying durations, and the critical-path query
NextPath ==
    \/ \E id \in CellIds, deps \in DepLists, d \in Durations :
           AddCell(FewEdges, id, deps, 0, d)
    \/ \E id \in CellIds, deps \in DepLists : UpdateDependencies(FewEdges, id, deps)
    \/ \E id \in CellIds : RemoveCell(FewEdges, id)
    \/ GetCriticalPath(FewEdges)

SpecPath == InitGraph /\ [][NextPath]_vars

\* execution-state tracking on a graph built by three add_cell calls
ExecDepLists == SeqsUpTo(CellIds, MaxExecDeps)

BuildGraph(da, db, dc) ==
    LET g1 == add_cell(NewDAG, "a", da, 0, DEFAULT_ESTIMATED_DURATION).dag
        g2 == add_cell(g1, "b", db, 0, DEFAULT_ESTIMATED_DURATION).dag
    IN  add_cell(g2, "c", dc, 0, DEFAULT_ESTIMATED_DURATION).dag

InitExec ==
    /\ \E da, db, dc \in ExecDepLists :
           /\ Len(da) + Len(db) + Len(dc) <= FewEdges
           /\ dag = BuildGraph(da, db, dc)
    /\ dag_call = Call("add_cell", "")
    /\ dag_ok = TRUE
    /\ RestInit
    /\ IdleRest

NextExec ==
    \/ \E id \in CellIds : RemoveCell(FewEdges, id)
    \/ \E id \in CellIds : MarkRunning(FewEdges, id)
    \/ \E id \in CellIds : MarkCompleted(FewEdges, id)
    \/ \E id \in CellIds : MarkFailed(FewEdges, id)
    \/ \E id \in CellIds : ResetCell(FewEdges, id)

SpecExec == InitExec /\ [][NextExec]_vars

(***************************************************************************)
(* Vocabulary of the properties.                                           *)
(***************************************************************************)
\* the dependencies of u that are cells of the graph
DepsOf(D, u) == Range(D.nodes[u].dependencies) \cap DOMAIN D.nodes

RECURSIVE DepClosure(_, _)
DepClosure(D, S) ==
    LET T == S \cup UNION {DepsOf(D, u) : u \in S}
    IN  IF T = S THEN S ELSE DepClosure(D, T)

\* every cell u depends on, directly or transitively
DependsOn(D, u) == DepClosure(D, DepsOf(D, u))

HasCycle(D) == \E u \in DOMAIN D.nodes : u \in DependsOn(D, u)

\* the cells that list u in their dependents-of relation: w with u among its
\* recorded dependents edges, followed transitively
DependentsOf(D, u) == Range(D.nodes[u].dependents) \cap DOMAIN D.nodes

RECURSIVE DependentClosure(_, _)
DependentClosure(D, S) ==
    LET T == S \cup UNION {DependentsOf(D, u) : u \in S}
    IN  IF T = S THEN S ELSE DependentClosure(D, T)

\* every cell reachable from u along dependents edges
Descendants(D, u) == DependentClosure(D, DependentsOf(D, u))

Prefix(o, k) == {o[i] : i \in 1..(k - 1)}

\* every dependency names a cell of the graph
NoDangling(D) == \A u \in DOMAIN D.nodes : Range(D.nodes[u].dependencies) \subseteq DOMAIN D.nodes

\* no cell lists a dependency twice
NoDupDeps(D) == \A u \in DOMAIN D.nodes : NoDup(D.nodes[u].dependencies)

(***************************************************************************)
(* C1: on every acyclic graph built by successful add_cell,                *)
(* update_dependencies and remove_cell calls, in which every dependency    *)
(* names a cell and none is listed twice, topological_sort() returns       *)
(* an order in which every dependency of an emitted cell is emitted before *)
(* it, and the cell emitted at each step has the highest priority among    *)
(* the cells not yet emitted whose dependencies have all been emitted.     *)
(***************************************************************************)
C1_TopologicalOrder ==
    (dag_ok /\ NoDangling(dag) /\ NoDupDeps(dag) /\ ~HasCycle(dag)) =>
        LET r == topological_sort(dag)
            o == r.result
            ns == dag.nodes
        IN  /\ r.raised = ""
            /\ \A i \in 1..Len(o) : DepsOf(dag, o[i]) \subseteq Prefix(o, i)
            /\ \A k \in 1..Len(o) : \A w \in DOMAIN ns :
                   (w \notin Prefix(o, k) /\ Range(ns[w].dependencies) \subseteq Prefix(o, k))
                       => ns[w].priority <= ns[o[k]].priority

(***************************************************************************)
(* C4: whenever the dependency graph has a cycle (a self-dependency        *)
(* included), topological_sort(), get_parallel_layers() and                *)
(* get_critical_path() each raise CycleDetectedError, whatever was cached  *)
(* before the mutation that closed the cycle.                              *)
(***************************************************************************)
C4_CyclicQueriesFail ==
    HasCycle(dag) =>
        /\ topological_sort(dag).raised = "CycleDetectedError"
        /\ get_parallel_layers(dag).raised = "CycleDetectedError"
        /\ get_critical_path(dag).raised = "CycleDetectedError"

\* a query has just failed on a cyclic graph whose layers had been computed
\* (and cached) before the cycle was closed: a node still carries level 1
C4_Witness ==
    /\ HasCycle(dag)
    /\ dag_call.raised = "CycleDetectedError"
    /\ \E u \in DOMAIN dag.nodes : dag.nodes[u].level >= 1

(***************************************************************************)
(* C5 as stated: after add_cell, update_dependencies and remove_cell calls *)
(* that all returned without error, detect_cycle() returns None.           *)
(***************************************************************************)
C5_AlwaysAcyclic == dag_ok => detect_cycle(dag) = <<>>

(***************************************************************************)
(* C5 amended: after add_cell, update_dependencies and remove_cell calls   *)
(* that all returned without error, detect_cycle() returns None exactly    *)
(* when no cell depends on itself directly or transitively; the mutators   *)
(* accept dependency lists that close a cycle.                             *)
(***************************************************************************)
C5_DetectCycleExact == dag_ok => ((detect_cycle(dag) = <<>>) <=> ~HasCycle(dag))

\* three successful calls have closed a cycle through all three cells
C5_Witness ==
    /\ dag_ok
    /\ detect_cycle(dag) # <<>>
    /\ Cardinality(Range(detect_cycle(dag)[1])) = 3
    /\ \A u \in DOMAIN dag.nodes : Len(dag.nodes[u].dependencies) = 1

\* the (1-based) positions of the layers that hold u
LayersOf(layers, u) == {k \in 1..Len(layers) : Contains(layers[k], u)}

(***************************************************************************)
(* C6: on an acyclic graph built by successful calls, in which every       *)
(* dependency names a cell, get_parallel_layers() puts every cell in one   *)
(* layer: a cell without dependencies in the first                         *)
(* layer, a cell with dependencies in the layer right after the last layer *)
(* of its dependencies; no cell shares a layer with one of its             *)
(* dependencies.                                                           *)
(***************************************************************************)
C6_LayerPlacement ==
    (dag_ok /\ NoDangling(dag) /\ ~HasCycle(dag)) =>
        LET r == get_parallel_layers(dag)
            L == r.result
            ns == dag.nodes
        IN  /\ r.raised = ""
            /\ \A u \in DOMAIN ns :
                   /\ Cardinality(LayersOf(L, u)) = 1
                   /\ ns[u].dependencies = <<>> => LayersOf(L, u) = {1}
                   /\ DepsOf(dag, u) # {} =>
                          LayersOf(L, u) =
                              {1 + Max(UNION {LayersOf(L, v) : v \in DepsOf(dag, u)})}
                   /\ \A v \in DepsOf(dag, u) : LayersOf(L, u) \cap LayersOf(L, v) = {}

RECURSIVE PathSum(_, _)
PathSum(D, path) ==
    IF path = <<>> THEN 0
    ELSE D.nodes[Head(path)].estimated_duration + PathSum(D, Tail(path))

\* the summed durations of the dependency chains that end at u
RECURSIVE ChainSums(_, _)
ChainSums(D, u) ==
    IF D.nodes[u].dependencies = <<>> THEN {D.nodes[u].estimated_duration}
    ELSE {s + D.nodes[u].estimated_duration :
              s \in UNION {ChainSums(D, v) : v \in DepsOf(D, u)}}

IsChain(D, path) ==
    /\ path # <<>>
    /\ \A i \in 1..Len(path) : path[i] \in DOMAIN D.nodes
    /\ D.nodes[path[1]].dependencies = <<>>
    /\ \A i \in 2..Len(path) : Contains(D.nodes[path[i]].dependencies, path[i - 1])

(***************************************************************************)
(* C7: on an acyclic non-empty graph built by successful calls, in which   *)
(* every dependency names a cell and no dependency is listed twice,        *)
(* get_critical_path() returns a dependency chain whose summed             *)
(* estimated_duration is at least that of every other dependency chain.    *)
(***************************************************************************)
C7_CriticalPathMaximal ==
    (dag_ok /\ dag.order # <<>> /\ NoDangling(dag) /\ NoDupDeps(dag) /\ ~HasCycle(dag)) =>
        LET r == get_critical_path(dag)
        IN  /\ r.raised = ""
            /\ IsChain(dag, r.result)
            /\ \A u \in DOMAIN dag.nodes : \A s \in ChainSums(dag, u) :
                   s <= PathSum(dag, r.result)

(***************************************************************************)
(* C8: for every acyclic graph built by successful calls,                  *)
(* from_dict(to_dict(D)) has the same node ids, and per node the same      *)
(* dependencies, the same set of dependents, the same state, priority,     *)
(* estimated_duration and level, and the same completed, running and       *)
(* failed id sets.                                                         *)
(***************************************************************************)
C8_RoundTrip ==
    (dag_ok /\ ~HasCycle(dag)) =>
        LET R == from_dict(to_dict(dag))
        IN  /\ DOMAIN R.nodes = DOMAIN dag.nodes
            /\ \A x \in DOMAIN dag.nodes :
                   /\ R.nodes[x].dependencies = dag.nodes[x].dependencies
                   /\ Range(R.nodes[x].dependents) = Range(dag.nodes[x].dependents)
                   /\ R.nodes[x].state = dag.nodes[x].state
                   /\ R.nodes[x].priority = dag.nodes[x].priority
                   /\ R.nodes[x].estimated_duration = dag.nodes[x].estimated_duration
                   /\ R.nodes[x].level = dag.nodes[x].level
            /\ R.completed_ids = dag.completed_ids
            /\ R.running_ids = dag.running_ids
            /\ R.failed_ids = dag.failed_ids

(***************************************************************************)
(* C2: on an acyclic graph in which every dependency names a cell, a cell  *)
(* id is in get_ready_cells() if and only if its node is pending and every *)
(* one of its dependencies is a node in state completed.                   *)
(***************************************************************************)
C2_ReadyIffDepsCompleted ==
    (NoDangling(dag) /\ ~HasCycle(dag)) =>
        \A u \in CellIds :
            Contains(get_ready_cells(dag), u) <=>
                /\ u \in DOMAIN dag.nodes
                /\ dag.nodes[u].state = "pending"
                /\ \A d \in Range(dag.nodes[u].dependencies) :
                       d \in DOMAIN dag.nodes /\ dag.nodes[d].state = "completed"

(***************************************************************************)
(* C3: a mark_failed(u) call leaves in state blocked every other node that *)
(* is reachable from u along dependents edges and was pending before the   *)
(* call, whatever the states of the nodes in between.                      *)
(***************************************************************************)
C3_FailureBlocksDescendants ==
    [][\A u \in DOMAIN dag.nodes :
           (dag_call'.op = "mark_failed" /\ dag' = mark_failed(dag, u).dag) =>
               \A w \in Descendants(dag, u) \ {u} :
                   dag.nodes[w].state = "pending" => dag'.nodes[w].state = "blocked"]_vars

(***************************************************************************)
(* WorkerPool (worker_pool.py, models.py).  A worker "worker-<n>" is the   *)
(* number n; a worker keeps its state and current task (statistics,        *)
(* progress and paths are left out).  Heartbeat ages are an input of       *)
(* monitor_heartbeat: the set of workers whose last heartbeat is older     *)
(* than the timeout.  No callback is registered.                           *)
(***************************************************************************)
WorkerStates == {"idle", "busy", "blocked", "error", "timeout", "stopped"}

\* TaskPriority, in definition (iteration) order
TaskPriority == <<"HIGH", "MEDIUM", "LOW">>

WorkerTask(cell_id, priority) == [cell_id |-> cell_id, priority |-> priority]

Worker(state, current_task) == [state |-> state, current_task |-> current_task]

\* TaskQueue.__init__
NewTaskQueue == [HIGH |-> <<>>, MEDIUM |-> <<>>, LOW |-> <<>>]

\* TaskQueue.put
queue_put(Q, task) == [Q EXCEPT ![task.priority] = Append(@, task)]

\* a get that pops the newest task of the band instead of the oldest
queue_get_newest(Q) ==
    LET nonempty == SelectSeq(TaskPriority, LAMBDA p : Q[p] # <<>>)
    IN  IF nonempty = <<>> THEN [queue |-> Q, task |-> <<>>]
        ELSE LET band == Q[nonempty[1]]
             IN  [queue |-> [Q EXCEPT ![nonempty[1]] = SubSeq(band, 1, Len(band) - 1)],
                  task |-> <<band[Len(band)]>>]

\* TaskQueue.get: <<>> for None
queue_get(Q) ==
    LET nonempty == SelectSeq(TaskPriority, LAMBDA p : Q[p] # <<>>)
    IN  IF nonempty = <<>> THEN [queue |-> Q, task |-> <<>>]
        ELSE [queue |-> [Q EXCEPT ![nonempty[1]] = Tail(@)],
              task |-> <<Head(Q[nonempty[1]])>>]

\* TaskQueue.size
queue_size(Q) == Len(Q.HIGH) + Len(Q.MEDIUM) + Len(Q.LOW)

\* WorkerPool.__init__
NewPool(min_workers, max_workers) ==
    [workers |-> <<>>, order |-> <<>>, worker_counter |-> 0,
     min_workers |-> min_workers, max_workers |-> max_workers,
     task_queue |-> NewTaskQueue]

\* WorkerPool._spawn_worker
spawn_worker(P) ==
    LET worker_id == P.worker_counter + 1
    IN  [pool |-> [P EXCEPT !.worker_counter = worker_id,
                            !.workers = Put(@, worker_id, Worker("idle", <<>>)),
                            !.order = Append(@, worker_id)],
         worker |-> worker_id]

\* a variant of get_idle_workers that takes Worker.is_available for Worker.is_idle
get_idle_workers_available(P) ==
    SelectSeq(P.order, LAMBDA w : P.workers[w].state \in {"idle", "error", "timeout"})

\* WorkerPool.get_idle_workers, with Worker.is_idle
get_idle_workers(P) == SelectSeq(P.order, LAMBDA w : P.workers[w].state = "idle")

\* WorkerPool.assign_cell: the pool afterwards and <<>> (None) or <<worker>>
assign_cell(P, task) ==
    LET idle_workers == get_idle_workers(P)
    IN  IF idle_workers = <<>> /\ ~(Len(P.order) < P.max_workers)
        THEN [pool |-> P, worker |-> <<>>]
        ELSE LET s == IF idle_workers = <<>> THEN spawn_worker(P)
                      ELSE [pool |-> P, worker |-> idle_workers[1]]
             IN  [pool |-> [s.pool EXCEPT !.workers[s.worker] = Worker("busy", <<task>>)],
                  worker |-> <<s.worker>>]

\* one assign_cell call as seen from outside: the pool it ran on, its task and
\* what it returned
AssignCall(P, task, worker) == [pool |-> P, task |-> task, worker |-> worker]

\* WorkerPool.release_worker; calls lists the assign_cell call it makes
release_worker(P, worker_id, success) ==
    IF worker_id \notin DOMAIN P.workers THEN [pool |-> P, calls |-> <<>>]
    ELSE LET P1 == [P EXCEPT !.workers[worker_id] = Worker("idle", <<>>)]
             g == queue_get(P1.task_queue)
             P2 == [P1 EXCEPT !.task_queue = g.queue]
         IN  IF g.task = <<>> THEN [pool |-> P2, calls |-> <<>>]
             ELSE LET r == assign_cell(P2, g.task[1])
                  IN  [pool |-> r.pool, calls |-> <<AssignCall(P2, g.task[1], r.worker)>>]

\* WorkerPool.monitor_heartbeat; stale is the set of workers whose heartbeat is
\* older than the timeout
monitor_heartbeat(P, stale) ==
    LET hit(w) == w \in stale /\ P.workers[w].state = "busy"
    IN  [pool |-> [P EXCEPT !.workers = [w \in DOMAIN P.workers |->
                       IF hit(w) THEN [P.workers[w] EXCEPT !.state = "timeout"]
                       ELSE P.workers[w]]],
         timed_out |-> SelectSeq(P.order, hit)]

\* the while loop of task_stealing
RECURSIVE steal_loop(_, _, _, _)
steal_loop(P, idle_workers, reassigned, calls) ==
    IF ~(queue_size(P.task_queue) > 0 /\ idle_workers # <<>>)
    THEN [pool |-> P, reassigned |-> reassigned, calls |-> calls]
    ELSE LET g == queue_get(P.task_queue)
             P1 == [P EXCEPT !.task_queue = g.queue]
             r == assign_cell(P1, g.task[1])
         IN  steal_loop(r.pool, Tail(idle_workers), reassigned + 1,
                        Append(calls, AssignCall(P1, g.task[1], r.worker)))

\* WorkerPool.task_stealing
task_stealing(P) ==
    LET idle_workers == get_idle_workers(P)
    IN  IF idle_workers = <<>> THEN [pool |-> P, reassigned |-> 0, calls |-> <<>>]
        ELSE steal_loop(P, idle_workers, 0, <<>>)

\* WorkerPool.start: spawns min_workers workers
RECURSIVE spawn_workers(_, _)
spawn_workers(P, n) == IF n = 0 THEN P ELSE spawn_workers(spawn_worker(P).pool, n - 1)

start(P) == spawn_workers(P, P.min_workers)

(***************************************************************************)
(* WorkerPool calls as actions.  assign_cell, release_worker,              *)
(* monitor_heartbeat and task_stealing run under the pool lock and are     *)
(* atomic; submit_task is not: a thread inside it is at "put" (assign_cell *)
(* returned None, task not queued yet), at "poll" (about to call           *)
(* assign_cell again, wait=True) or at "sleep" (between two polls).        *)
(* pool_hist.bound[w] lists the tasks assign_cell handed to worker w since *)
(* w was last released; pool_hist.last describes the assign_cell calls of  *)
(* the latest step.                                                        *)
(***************************************************************************)
PoolThreads == 1..MaxPoolThreads
PoolTasks == {WorkerTask("a", "HIGH"), WorkerTask("b", "MEDIUM")}

AllBusyAtMax(P) ==
    /\ Len(P.order) >= P.max_workers
    /\ \A w \in DOMAIN P.workers : P.workers[w].state = "busy"

\* what an assign_cell call did: the worker it returned, that worker's state
\* when the call started, and whether the pool was full then
BindingOf(c) ==
    [worker |-> c.worker, task |-> c.task,
     was |-> IF c.worker = <<>> THEN "none"
             ELSE IF c.worker[1] \in DOMAIN c.pool.workers
                  THEN c.pool.workers[c.worker[1]].state
                  ELSE "spawned",
     full |-> AllBusyAtMax(c.pool)]

RECURSIVE Bind(_, _, _)
Bind(bound, calls, i) ==
    IF i > Len(calls) THEN bound
    ELSE IF calls[i].worker = <<>> THEN Bind(bound, calls, i + 1)
    ELSE LET w == calls[i].worker[1]
             old == IF w \in DOMAIN bound THEN bound[w] ELSE <<>>
         IN  Bind(Put(bound, w, Append(old, calls[i].task)), calls, i + 1)

PoolCall(op, result) == [op |-> op, result |-> result]

PoolStep(op, P, calls, released, result) ==
    /\ P.worker_counter <= MaxSpawn
    /\ pool' = P
    /\ pool_call' = PoolCall(op, result)
    /\ pool_hist' =
           [bound |-> Bind([w \in DOMAIN pool_hist.bound |->
                               IF w \in released THEN <<>> ELSE pool_hist.bound[w]],
                           calls, 1),
            last |-> [i \in 1..Len(calls) |-> BindingOf(calls[i])]]
    /\ UNCHANGED <<dagVars, queen, queen_hist, restVars>>

Start ==
    /\ PoolStep("start", start(pool), <<>>, {}, <<>>)
    /\ UNCHANGED threads

AssignCell(task) ==
    LET r == assign_cell(pool, task)
    IN  /\ PoolStep("assign_cell", r.pool, <<AssignCall(pool, task, r.worker)>>, {}, r.worker)
        /\ UNCHANGED threads

\* submit_task up to the return of its first assign_cell
SubmitTask(th, task, wait) ==
    LET r == assign_cell(pool, task)
        waiting == Cardinality({t \in PoolThreads : threads[t].pc = "put"})
    IN  /\ threads[th].pc = "idle"
        /\ queue_size(pool.task_queue) + waiting < MaxQueue
        /\ PoolStep("submit_task", r.pool, <<AssignCall(pool, task, r.worker)>>, {}, r.worker)
        /\ threads' = IF r.worker # <<>> THEN threads
                      ELSE [threads EXCEPT ![th] = [pc |-> "put", task |-> <<task>>, wait |-> wait]]

\* submit_task: self.task_queue.put(task)
SubmitPut(th) ==
    /\ threads[th].pc = "put"
    /\ PoolStep("submit_task.put",
                [pool EXCEPT !.task_queue = queue_put(@, threads[th].task[1])], <<>>, {}, <<>>)
    /\ threads' = IF threads[th].wait THEN [threads EXCEPT ![th].pc = "poll"]
                  ELSE [threads EXCEPT ![th] = [pc |-> "idle", task |-> <<>>, wait |-> FALSE]]

\* submit_task(wait=True): one round of the polling loop
SubmitPoll(th) ==
    LET task == threads[th].task[1]
        r == assign_cell(pool, task)
    IN  /\ threads[th].pc = "poll"
        /\ PoolStep("submit_task.poll", r.pool, <<AssignCall(pool, task, r.worker)>>, {}, r.worker)
        /\ threads' = IF r.worker # <<>>
                      THEN [threads EXCEPT ![th] = [pc |-> "idle", task |-> <<>>, wait |-> FALSE]]
                      ELSE [threads EXCEPT ![th].pc = "sleep"]

\* submit_task(wait=True): after time.sleep(1) the loop goes on, or its 60 s are over
SubmitWake(th, timed_out) ==
    /\ threads[th].pc = "sleep"
    /\ PoolStep("submit_task.sleep", pool, <<>>, {}, <<>>)
    /\ threads' = IF timed_out
                  THEN [threads EXCEPT ![th] = [pc |-> "idle", task |-> <<>>, wait |-> FALSE]]
                  ELSE [threads EXCEPT ![th].pc = "poll"]

ReleaseWorker(worker_id, success) ==
    LET r == release_worker(pool, worker_id, success)
    IN  /\ PoolStep("release_worker", r.pool, r.calls, {worker_id}, <<>>)
        /\ UNCHANGED threads

MonitorHeartbeat(stale) ==
    LET r == monitor_heartbeat(pool, stale)
    IN  /\ PoolStep("monitor_heartbeat", r.pool, <<>>, {}, r.timed_out)
        /\ UNCHANGED threads

TaskStealing ==
    LET r == task_stealing(pool)
    IN  /\ PoolStep("task_stealing", r.pool, r.calls, {}, <<r.reassigned>>)
        /\ UNCHANGED threads

InitPool ==
    /\ DagInit
    /\ pool = NewPool(MinWorkers, MaxWorkers)
    /\ pool_call = PoolCall("init", <<>>)
    /\ pool_hist = [bound |-> <<>>, last |-> <<>>]
    /\ threads = [th \in PoolThreads |-> [pc |-> "idle", task |-> <<>>, wait |-> FALSE]]
    /\ queen = <<>>
    /\ queen_hist = <<>>

NextPool ==
    \/ Start
    \/ \E task \in PoolTasks : AssignCell(task)
    \/ \E th \in PoolThreads, task \in PoolTasks, wait \in BOOLEAN : SubmitTask(th, task, wait)
    \/ \E th \in PoolThreads : SubmitPut(th)
    \/ \E th \in PoolThreads : SubmitPoll(th)
    \/ \E th \in PoolThreads, timed_out \in BOOLEAN : SubmitWake(th, timed_out)
    \/ \E worker_id \in 1..MaxSpawn, success \in BOOLEAN : ReleaseWorker(worker_id, success)
    \/ \E stale \in SUBSET (DOMAIN pool.workers) : MonitorHeartbeat(stale)
    \/ TaskStealing

SpecPool == InitPool /\ [][NextPool]_vars

(***************************************************************************)
(* C9: no worker is bound to two tasks at once: assign_cell never hands a  *)
(* task to a worker that holds one it has not been released from; every    *)
(* worker assign_cell returns was idle or newly spawned when the call      *)
(* started; and an assign_cell call that starts with every worker busy and *)
(* the pool at max_workers returns None.                                   *)
(***************************************************************************)
C9_NoDoubleBinding ==
    /\ \A w \in DOMAIN pool_hist.bound : Len(pool_hist.bound[w]) <= 1
    /\ \A i \in 1..Len(pool_hist.last) :
           /\ pool_hist.last[i].worker # <<>> => pool_hist.last[i].was \in {"idle", "spawned"}
           /\ pool_hist.last[i].full => pool_hist.last[i].worker = <<>>

\* with a submit_task call in flight and a worker timed out on its task, a
\* direct assign_cell call has just found the pool full and returned None
C9_Witness ==
    /\ pool_call = PoolCall("assign_cell", <<>>)
    /\ Len(pool_hist.last) = 1 /\ pool_hist.last[1].full
    /\ Len(pool.order) = pool.max_workers
    /\ \A w \in DOMAIN pool.workers : Len(pool_hist.bound[w]) = 1
    /\ \E th \in PoolThreads : threads[th].pc = "put"

(***************************************************************************)
(* QueenScheduler and the cell store (queen_scheduler.py, cell_manager.py).*)
(* The store holds one cell.json per cell: Q.cells[c] keeps its status and *)
(* dependencies, Q.cell_order the order in which list_cells meets the      *)
(* cells.  A worker "worker-<n>" is the number n.  Pheromone updates and   *)
(* logging are left out.                                                   *)
(***************************************************************************)
SchedulerStates == {"idle", "running", "paused", "stopped"}

QueenWorker(state, cell_id) == [state |-> state, cell_id |-> cell_id]

\* QueenScheduler.__init__ over a cell store
NewQueen(max_workers, cells, cell_order) ==
    [state |-> "idle", max_workers |-> max_workers, workers |-> <<>>, order |-> <<>>,
     dispatch_lock |-> <<>>, cells |-> cells, cell_order |-> cell_order]

\* QueenScheduler._initialize_workers
initialize_workers(Q) ==
    [Q EXCEPT !.workers = [i \in 1..Q.max_workers |-> QueenWorker("idle", <<>>)],
              !.order = [i \in 1..Q.max_workers |-> i]]

\* QueenScheduler.start
queen_start(Q) ==
    IF Q.state = "running" THEN Q
    ELSE initialize_workers([Q EXCEPT !.state = "running"])

\* QueenScheduler.get_idle_workers
queen_get_idle_workers(Q) == SelectSeq(Q.order, LAMBDA w : Q.workers[w].state = "idle")

\* CellManager.get_ready_cells, as the ids of the cells it returns
cm_get_ready_cells(Q) ==
    LET completed_ids == {c \in DOMAIN Q.cells : Q.cells[c].status = "completed"}
    IN  SelectSeq(Q.cell_order, LAMBDA c :
            /\ Q.cells[c].status = "pending"
            /\ \A i \in 1..Len(Q.cells[c].dependencies) :
                   Q.cells[c].dependencies[i] \in completed_ids)

\* CellManager.update_cell_status on an existing cell
cm_update_cell_status(Q, cell_id, status) == [Q EXCEPT !.cells[cell_id].status = status]

\* a variant of the lock test that lets every thread in
dispatch_lock_open(Q) == TRUE

\* threading.Lock: free when no thread holds it
dispatch_lock_free(Q) == Q.dispatch_lock = <<>>

(***************************************************************************)
(* dispatch_workers as the steps of a thread.  Each thread th is at one of *)
(*   "idle"       outside dispatch_workers                                 *)
(*   "acquire"    state checked, waiting for _dispatch_lock                *)
(*   "read_idle"  about to evaluate get_idle_workers()                     *)
(*   "read_ready" about to evaluate cell_manager.get_ready_cells()         *)
(*   "loop"       at the head of the zip loop, entering                    *)
(*                assign_cell_to_worker for pair i                         *)
(*   "bind"       worker found idle, about to write its fields             *)
(*   "status"     about to write the cell status                           *)
(*   "return"     about to leave the with block                            *)
(* queen_hist keeps the number of idle workers and the ready cells at the  *)
(* start, the bindings made and the number of calls that have returned.    *)
(***************************************************************************)
DispatchThreads == 1..MaxDispatchThreads

IdleThread(calls) ==
    [pc |-> "idle", idle_workers |-> <<>>, ready_cells |-> <<>>, i |-> 0,
     assignments |-> <<>>, calls |-> calls]

QueenStep(th, Q, t, hist) ==
    /\ queen' = Q
    /\ threads' = [threads EXCEPT ![th] = t]
    /\ queen_hist' = hist
    /\ UNCHANGED <<dagVars, poolVars, restVars>>

\* entry of dispatch_workers: the state test
DispatchCall(th) ==
    /\ threads[th].pc = "idle"
    /\ threads[th].calls < MaxDispatchCalls
    /\ IF queen.state # "running"
       THEN QueenStep(th, queen, IdleThread(threads[th].calls + 1),
                      [queen_hist EXCEPT !.returned = @ + 1])
       ELSE QueenStep(th, queen, [threads[th] EXCEPT !.pc = "acquire"], queen_hist)

\* with self._dispatch_lock
DispatchAcquire(th) ==
    /\ threads[th].pc = "acquire"
    /\ dispatch_lock_free(queen)
    /\ QueenStep(th, [queen EXCEPT !.dispatch_lock = <<th>>],
                 [threads[th] EXCEPT !.pc = "read_idle"], queen_hist)

DispatchReadIdle(th) ==
    /\ threads[th].pc = "read_idle"
    /\ QueenStep(th, queen,
                 [threads[th] EXCEPT !.pc = "read_ready",
                                     !.idle_workers = queen_get_idle_workers(queen)],
                 queen_hist)

DispatchReadReady(th) ==
    /\ threads[th].pc = "read_ready"
    /\ QueenStep(th, queen,
                 [threads[th] EXCEPT !.pc = "loop", !.i = 1,
                                     !.ready_cells = cm_get_ready_cells(queen)],
                 queen_hist)

\* next pair of zip(idle_workers, ready_cells), and the state test of
\* assign_cell_to_worker
DispatchLoop(th) ==
    LET t == threads[th]
    IN  /\ t.pc = "loop"
        /\ IF t.i > Min2(Len(t.idle_workers), Len(t.ready_cells))
           THEN QueenStep(th, queen, [t EXCEPT !.pc = "return"], queen_hist)
           ELSE IF queen.workers[t.idle_workers[t.i]].state # "idle"
           THEN QueenStep(th, queen, [t EXCEPT !.i = @ + 1], queen_hist)
           ELSE QueenStep(th, queen, [t EXCEPT !.pc = "bind"], queen_hist)

\* assign_cell_to_worker: worker.cell_id = cell_id; worker.state = BUSY; ...
DispatchBind(th) ==
    LET t == threads[th]
    IN  /\ t.pc = "bind"
        /\ QueenStep(th,
               [queen EXCEPT !.workers[t.idle_workers[t.i]] =
                                 QueenWorker("busy", <<t.ready_cells[t.i]>>)],
               [t EXCEPT !.pc = "status"], queen_hist)

\* assign_cell_to_worker: update_cell_status(cell_id, "in_progress"); return True;
\* then the append to assignments
DispatchStatus(th) ==
    LET t == threads[th]
        a == [worker_id |-> t.idle_workers[t.i], cell_id |-> t.ready_cells[t.i]]
    IN  /\ t.pc = "status"
        /\ QueenStep(th, cm_update_cell_status(queen, a.cell_id, "in_progress"),
               [t EXCEPT !.pc = "loop", !.i = @ + 1, !.assignments = Append(@, a)],
               [queen_hist EXCEPT !.bindings = Append(@, a)])

\* the return statement: leaves the with block
DispatchReturn(th) ==
    /\ threads[th].pc = "return"
    /\ QueenStep(th, [queen EXCEPT !.dispatch_lock = <<>>],
                 IdleThread(threads[th].calls + 1),
                 [queen_hist EXCEPT !.returned = @ + 1])

\* the cell stores of the model: three cells, each pending or completed
CellStores ==
    {[c \in CellIds |-> [status |-> st[c], dependencies |-> deps[c]]] :
        st \in [CellIds -> {"pending", "completed"}],
        deps \in {d \in [CellIds -> ExecDepLists] :
                     Len(d["a"]) + Len(d["b"]) + Len(d["c"]) <= FewEdges}}

\* a scheduler over a cell store, started or not
InitDispatch ==
    /\ DagInit
    /\ pool = <<>> /\ pool_call = <<>> /\ pool_hist = <<>>
    /\ \E cells \in CellStores, started \in BOOLEAN :
           LET Q0 == NewQueen(MaxQueenWorkers, cells, <<"a", "b", "c">>)
           IN  queen = IF started THEN queen_start(Q0) ELSE Q0
    /\ threads = [th \in DispatchThreads |-> IdleThread(0)]
    /\ queen_hist = [k |-> Len(queen_get_idle_workers(queen)),
                     ready |-> cm_get_ready_cells(queen),
                     bindings |-> <<>>, returned |-> 0]

NextDispatch ==
    \/ \E th \in DispatchThreads : DispatchCall(th)
    \/ \E th \in DispatchThreads : DispatchAcquire(th)
    \/ \E th \in DispatchThreads : DispatchReadIdle(th)
    \/ \E th \in DispatchThreads : DispatchReadReady(th)
    \/ \E th \in DispatchThreads : DispatchLoop(th)
    \/ \E th \in DispatchThreads : DispatchBind(th)
    \/ \E th \in DispatchThreads : DispatchStatus(th)
    \/ \E th \in DispatchThreads : DispatchReturn(th)

SpecDispatch == InitDispatch /\ [][NextDispatch]_vars

(***************************************************************************)
(* C10: on a running scheduler that starts with k idle workers and m ready *)
(* cells, concurrent dispatch_workers calls never bind a worker or a cell  *)
(* twice; once a call has returned, exactly min(k, m) bindings exist, and  *)
(* every initially ready cell without a binding still has status pending   *)
(* and is returned by get_ready_cells().                                   *)
(***************************************************************************)
C10_DispatchBindsMin ==
    queen.state = "running" =>
        LET b == queen_hist.bindings
            bound_cells == {b[i].cell_id : i \in 1..Len(b)}
        IN  /\ \A i, j \in 1..Len(b) :
                   i # j => (b[i].worker_id # b[j].worker_id /\ b[i].cell_id # b[j].cell_id)
            /\ Len(b) <= Min2(queen_hist.k, Len(queen_hist.ready))
            /\ queen_hist.returned >= 1 =>
                   /\ Len(b) = Min2(queen_hist.k, Len(queen_hist.ready))
                   /\ \A c \in Range(queen_hist.ready) \ bound_cells :
                          /\ queen.cells[c].status = "pending"
                          /\ Contains(cm_get_ready_cells(queen), c)

\* three cells were ready for two idle workers; a call has returned with both
\* workers bound, and now one thread is inside a further call while another
\* waits for the dispatch lock
C10_Witness ==
    /\ queen.state = "running"
    /\ queen_hist.k = 2 /\ Len(queen_hist.ready) = 3
    /\ queen_hist.returned >= 1
    /\ Len(queen_hist.bindings) = 2
    /\ \E t1, t2 \in DispatchThreads :
           threads[t1].pc = "loop" /\ threads[t2].pc = "acquire"

(***************************************************************************)
(* The scheduler's operations as whole calls (queen_scheduler.py).  Calls  *)
(* of different threads interleave call by call; a cell task started by    *)
(* run_cell stays in flight until _execute_cell_task finishes it.          *)
(***************************************************************************)
MaxInflight == 1

QueenCellIds == CellIds \cup {"d"}

\* CellManager.get_cell: is there a cell.json for the id
cm_has_cell(Q, cell_id) == cell_id \in DOMAIN Q.cells

\* QueenScheduler.assign_cell_to_worker: the scheduler afterwards and the result
assign_cell_to_worker(Q, w, cell_id) ==
    IF Q.workers[w].state # "idle"
    THEN [queen |-> Q, result |-> FALSE]
    ELSE [queen |-> cm_update_cell_status(
                        [Q EXCEPT !.workers[w] = QueenWorker("busy", <<cell_id>>)],
                        cell_id, "in_progress"),
          result |-> TRUE]

\* QueenScheduler.release_worker
queen_release_worker(Q, worker_id, success) ==
    IF worker_id \notin DOMAIN Q.workers THEN Q
    ELSE LET cell_id == Q.workers[worker_id].cell_id
             Q1 == IF cell_id # <<>>
                   THEN cm_update_cell_status(Q, cell_id[1],
                            IF success THEN "completed" ELSE "failed")
                   ELSE Q
         IN  [Q1 EXCEPT !.workers[worker_id] = QueenWorker("idle", <<>>)]

\* the first worker of self.workers.values() whose cell_id is the cell: <<>> or <<w>>
worker_of_cell(Q, cell_id) ==
    LET ws == SelectSeq(Q.order, LAMBDA w : Q.workers[w].cell_id = <<cell_id>>)
    IN  IF ws = <<>> THEN <<>> ELSE <<ws[1]>>

\* QueenScheduler.handle_blocker
handle_blocker(Q, cell_id) ==
    IF ~cm_has_cell(Q, cell_id) THEN Q
    ELSE LET Q1 == cm_update_cell_status(Q, cell_id, "blocked")
             bw == worker_of_cell(Q1, cell_id)
         IN  IF bw = <<>> THEN Q1 ELSE [Q1 EXCEPT !.workers[bw[1]].state = "blocked"]

\* QueenScheduler.resolve_blocker
resolve_blocker(Q, cell_id) ==
    IF ~cm_has_cell(Q, cell_id) \/ Q.cells[cell_id].status # "blocked" THEN Q
    ELSE LET Q1 == cm_update_cell_status(Q, cell_id, "pending")
             bw == worker_of_cell(Q1, cell_id)
         IN  IF bw = <<>> THEN Q1 ELSE [Q1 EXCEPT !.workers[bw[1]].state = "idle"]

RECURSIVE dispatch_loop(_, _, _, _)
\* the zip loop of dispatch_workers
dispatch_loop(Q, idle_workers, ready_cells, i) ==
    IF i > Min2(Len(idle_workers), Len(ready_cells)) THEN Q
    ELSE dispatch_loop(assign_cell_to_worker(Q, idle_workers[i], ready_cells[i]).queen,
                       idle_workers, ready_cells, i + 1)

\* QueenScheduler.dispatch_workers, the whole call inside the dispatch lock
dispatch_workers(Q) ==
    IF Q.state # "running" THEN Q
    ELSE dispatch_loop(Q, queen_get_idle_workers(Q), cm_get_ready_cells(Q), 1)

\* QueenScheduler.run_cell up to the hand-over to _execute_cell_task: the
\* scheduler afterwards, the exception raised and the worker taken
run_cell(Q, cell_id) ==
    IF ~cm_has_cell(Q, cell_id)
    THEN [queen |-> Q, raised |-> "CellNotFoundError", worker |-> <<>>]
    ELSE LET idle_workers == queen_get_idle_workers(Q)
         IN  IF idle_workers = <<>>
             THEN [queen |-> Q, raised |-> "QueenSchedulerError", worker |-> <<>>]
             ELSE [queen |-> assign_cell_to_worker(Q, idle_workers[1], cell_id).queen,
                   raised |-> "", worker |-> <<idle_workers[1]>>]

\* QueenScheduler._execute_cell_task from the end of the agent process on
execute_cell_task_end(Q, worker_id, outcome) ==
    IF worker_id \notin DOMAIN Q.workers THEN Q
    ELSE IF outcome = "success" THEN queen_release_worker(Q, worker_id, TRUE)
    ELSE IF outcome = "failure" THEN queen_release_worker(Q, worker_id, FALSE)
    ELSE queen_release_worker([Q EXCEPT !.workers[worker_id].state = outcome],
                              worker_id, FALSE)

\* QueenScheduler.stop with _cleanup_workers
queen_stop(Q) ==
    IF Q.state = "stopped" THEN Q
    ELSE [Q EXCEPT !.state = "stopped",
                   !.workers = [w \in DOMAIN Q.workers |->
                                   [Q.workers[w] EXCEPT !.state = "stopped"]]]

\* QueenScheduler.pause
queen_pause(Q) == IF Q.state = "running" THEN [Q EXCEPT !.state = "paused"] ELSE Q

\* QueenScheduler.resume
queen_resume(Q) == IF Q.state = "paused" THEN [Q EXCEPT !.state = "running"] ELSE Q

RECURSIVE heartbeat_loop(_, _, _)
\* the loop of _check_worker_heartbeats; stale holds the workers whose last
\* heartbeat is older than the timeout
heartbeat_loop(Q, stale, i) ==
    IF i > Len(Q.order) THEN Q
    ELSE LET w == Q.order[i]
         IN  IF Q.workers[w].state # "busy" \/ w \notin stale
             THEN heartbeat_loop(Q, stale, i + 1)
             ELSE LET Q1 == [Q EXCEPT !.workers[w].state = "timeout"]
                      Q2 == IF Q1.workers[w].cell_id # <<>>
                            THEN handle_blocker(Q1, Q1.workers[w].cell_id[1])
                            ELSE Q1
                  IN  heartbeat_loop(Q2, stale, i + 1)

\* QueenScheduler._check_worker_heartbeats
check_worker_heartbeats(Q, stale) == heartbeat_loop(Q, stale, 1)

(***************************************************************************)
(* Actions of the scheduler, one per call.  queen_hist.inflight[w] counts   *)
(* the cell tasks handed to _execute_cell_task for worker w that have not  *)
(* finished.                                                               *)
(***************************************************************************)
QueenWorkerIds == 1..MaxQueenWorkers

Outcomes == {"success", "failure", "timeout", "error"}

QueenCall(op, Q, inflight) ==
    /\ queen' = Q
    /\ queen_hist' = [inflight |-> inflight]
    /\ UNCHANGED <<dagVars, poolVars, threads, restVars>>

QueenStart == QueenCall("start", queen_start(queen), queen_hist.inflight)

QueenStop == QueenCall("stop", queen_stop(queen), queen_hist.inflight)

QueenPause == QueenCall("pause", queen_pause(queen), queen_hist.inflight)

QueenResume == QueenCall("resume", queen_resume(queen), queen_hist.inflight)

DispatchWorkers == QueenCall("dispatch_workers", dispatch_workers(queen), queen_hist.inflight)

RunCell(cell_id) ==
    LET r == run_cell(queen, cell_id)
    IN  /\ r.worker # <<>> => queen_hist.inflight[r.worker[1]] < MaxInflight
        /\ QueenCall("run_cell", r.queen,
               IF r.worker = <<>> THEN queen_hist.inflight
               ELSE [queen_hist.inflight EXCEPT ![r.worker[1]] = @ + 1])

ExecuteCellTaskEnd(worker_id, outcome) ==
    /\ queen_hist.inflight[worker_id] > 0
    /\ QueenCall("execute_cell_task", execute_cell_task_end(queen, worker_id, outcome),
           [queen_hist.inflight EXCEPT ![worker_id] = @ - 1])

QueenReleaseWorker(worker_id, success) ==
    QueenCall("release_worker", queen_release_worker(queen, worker_id, success),
              queen_hist.inflight)

HandleBlocker(cell_id) ==
    QueenCall("handle_blocker", handle_blocker(queen, cell_id), queen_hist.inflight)

ResolveBlocker(cell_id) ==
    QueenCall("resolve_blocker", resolve_blocker(queen, cell_id), queen_hist.inflight)

CheckWorkerHeartbeats(stale) ==
    /\ queen.state # "stopped"
    /\ QueenCall("check_worker_heartbeats", check_worker_heartbeats(queen, stale),
                 queen_hist.inflight)

\* a scheduler not yet started over three pending cells, c depending on a
InitQueen ==
    /\ DagInit
    /\ pool = <<>> /\ pool_call = <<>> /\ pool_hist = <<>>
    /\ threads = <<>>
    /\ queen = NewQueen(MaxQueenWorkers,
                   [c \in CellIds |-> [status |-> "pending",
                                       dependencies |-> IF c = "c" THEN <<"a">> ELSE <<>>]],
                   <<"a", "b", "c">>)
    /\ queen_hist = [inflight |-> [w \in QueenWorkerIds |-> 0]]

NextQueen ==
    \/ QueenStart
    \/ QueenStop
    \/ QueenPause
    \/ QueenResume
    \/ DispatchWorkers
    \/ \E c \in QueenCellIds : RunCell(c)
    \/ \E w \in QueenWorkerIds, o \in Outcomes : ExecuteCellTaskEnd(w, o)
    \/ \E w \in QueenWorkerIds, ok \in BOOLEAN : QueenReleaseWorker(w, ok)
    \/ \E c \in QueenCellIds : HandleBlocker(c)
    \/ \E c \in QueenCellIds : ResolveBlocker(c)
    \/ \E stale \in SUBSET QueenWorkerIds : CheckWorkerHeartbeats(stale)

SpecQueen == InitQueen /\ [][NextQueen]_vars

\* the workers bound to a cell: busy with that cell id
BoundTo(Q, cell_id) ==
    {w \in DOMAIN Q.workers : Q.workers[w].state = "busy" /\ Q.workers[w].cell_id = <<cell_id>>}

(***************************************************************************)
(* C11: at every instant, under any interleaving of dispatch_workers,      *)
(* run_cell, release_worker, handle_blocker and resolve_blocker, no cell   *)
(* id is bound to two different workers (a worker holds one cell_id, so it *)
(* is never bound to two cells).                                           *)
(***************************************************************************)
C11_AssignmentUnique ==
    \A c \in CellIds : Cardinality(BoundTo(queen, c)) <= 1

(***************************************************************************)
(* FileLock (pheromone.py).  The lock file is a path that names an inode   *)
(* or nothing; an inode keeps the lock info written to it (the holder's    *)
(* time), the process whose descriptor holds the flock / msvcrt byte lock, *)
(* and the processes that have it open.  bus.mode is the strategy the      *)
(* platform selects: "fcntl", "msvcrt" or "atomic".  bus.now is the clock. *)
(***************************************************************************)
MaxBusProcs == 2
MaxClock == 500

LOCK_STALE_THRESHOLD == 300

BusProcs == 1..MaxBusProcs

InodeIds == 1..(MaxBusProcs + 1)

LockModes == {"fcntl", "msvcrt", "atomic"}

\* the clock advances by a little more than half the stale threshold
ClockStep == (LOCK_STALE_THRESHOLD \div 2) + 1

FreeInode == [content |-> <<>>, flock |-> <<>>, open |-> {}]

\* an inode neither named by the path nor open is gone
inode_free(B, i) == B.path # <<i>> /\ B.inodes[i].open = {}

new_inode(B) == CHOOSE i \in InodeIds : inode_free(B, i) /\ \A j \in InodeIds : inode_free(B, j) => i <= j

\* LockInfo.from_file: <<>> (None) or <<holder_time>>
lock_info_from_file(B) == IF B.path = <<>> THEN <<>> ELSE B.inodes[B.path[1]].content

\* LockInfo.is_stale
is_stale(holder_time, now, threshold) == (now - holder_time) > threshold

\* Path.unlink on the lock file: fails on a missing file, and under msvcrt
\* (Windows) on a file that a process has open
unlink_lock_file(B) ==
    IF B.path = <<>> THEN B
    ELSE IF B.mode = "msvcrt" /\ B.inodes[B.path[1]].open # {} THEN B
    ELSE LET i == B.path[1]
         IN  [B EXCEPT !.path = <<>>,
                       !.inodes[i] = IF B.inodes[i].open = {} THEN FreeInode ELSE @]

\* os.open(lock_file, O_CREAT | ...): the files afterwards and the inode opened
open_lock_file(B, p) ==
    LET i == IF B.path = <<>> THEN new_inode(B) ELSE B.path[1]
    IN  [bus |-> [B EXCEPT !.path = <<i>>, !.inodes[i].open = @ \cup {p}], fd |-> i]

\* os.close / handle.close: drops the descriptor and the lock it holds
close_lock_file(B, p, i) ==
    LET n == [B.inodes[i] EXCEPT !.open = @ \ {p},
                                 !.flock = IF @ = <<p>> THEN <<>> ELSE @]
    IN  [B EXCEPT !.inodes[i] = IF B.path # <<i>> /\ n.open = {} THEN FreeInode ELSE n]

\* FileLock._write_lock_info
write_lock_info(B, i) == [B EXCEPT !.inodes[i].content = <<B.now>>]

(***************************************************************************)
(* FileLock.acquire and release as the steps of a process.  A process is   *)
(* at one of                                                               *)
(*   "idle"     outside the lock                                           *)
(*   "cleanup"  in _cleanup_stale_lock, about to read the lock info        *)
(*   "unlink"   lock info found stale, about to unlink the lock file       *)
(*   "try"      about to open (or exclusively create) the lock file        *)
(*   "lock"     file open, about to ask for the flock / byte lock          *)
(*   "write"    lock taken, about to write the lock info                   *)
(*   "held"     acquire has returned True                                  *)
(*   "retry"    attempt failed, about to test the timeout                  *)
(***************************************************************************)
IdleProc == [pc |-> "idle", fd |-> <<>>]

LockStep(p, B, t) ==
    /\ bus' = B
    /\ procs' = [procs EXCEPT ![p] = t]
    /\ UNCHANGED <<dagVars, poolVars, queenVars, drone>>

AcquireCall(p) ==
    /\ procs[p].pc = "idle"
    /\ LockStep(p, bus, [procs[p] EXCEPT !.pc = "cleanup"])

CleanupRead(p) ==
    /\ procs[p].pc = "cleanup"
    /\ LET info == lock_info_from_file(bus)
       IN  IF info # <<>> /\ is_stale(info[1], bus.now, LOCK_STALE_THRESHOLD)
           THEN LockStep(p, bus, [procs[p] EXCEPT !.pc = "unlink"])
           ELSE LockStep(p, bus, [procs[p] EXCEPT !.pc = "try"])

CleanupUnlink(p) ==
    /\ procs[p].pc = "unlink"
    /\ LockStep(p, unlink_lock_file(bus), [procs[p] EXCEPT !.pc = "try"])

\* the os.open / open of _acquire_fcntl, _acquire_msvcrt and _acquire_atomic
TryOpen(p) ==
    /\ procs[p].pc = "try"
    /\ IF bus.mode = "atomic" /\ bus.path # <<>>
       THEN LockStep(p, bus, [procs[p] EXCEPT !.pc = "retry"])
       ELSE LET r == open_lock_file(bus, p)
            IN  LockStep(p, r.bus, [pc |-> IF bus.mode = "atomic" THEN "write" ELSE "lock",
                                    fd |-> <<r.fd>>])

\* fcntl.flock(LOCK_EX | LOCK_NB) / msvcrt.locking(LK_NBLCK)
TryLock(p) ==
    /\ procs[p].pc = "lock"
    /\ LET i == procs[p].fd[1]
       IN  IF bus.inodes[i].flock = <<>>
           THEN LockStep(p, [bus EXCEPT !.inodes[i].flock = <<p>>],
                         [procs[p] EXCEPT !.pc = "write"])
           ELSE LockStep(p, close_lock_file(bus, p, i), [pc |-> "retry", fd |-> <<>>])

WriteInfo(p) ==
    /\ procs[p].pc = "write"
    /\ LockStep(p, write_lock_info(bus, procs[p].fd[1]), [procs[p] EXCEPT !.pc = "held"])

\* the loop test of acquire after a failed attempt
Retry(p, timed_out) ==
    /\ procs[p].pc = "retry"
    /\ LockStep(p, bus, [procs[p] EXCEPT !.pc = IF timed_out THEN "idle" ELSE "cleanup"])

\* FileLock.release
Release(p) ==
    /\ procs[p].pc = "held"
    /\ LET B1 == close_lock_file(bus, p, procs[p].fd[1])
       IN  LockStep(p, IF bus.mode = "atomic" THEN unlink_lock_file(B1) ELSE B1, IdleProc)

\* time passes
Tick ==
    /\ bus.now + ClockStep <= MaxClock
    /\ bus' = [bus EXCEPT !.now = @ + ClockStep]
    /\ UNCHANGED <<procs, dagVars, poolVars, queenVars, drone>>

\* no lock file yet, on one of the three platforms
InitLock ==
    /\ dag = NewDAG /\ dag_call = Call("init", "") /\ dag_ok = TRUE
    /\ IdleRest
    /\ drone = <<>>
    /\ \E mode \in LockModes :
           bus = [mode |-> mode, now |-> 0, path |-> <<>>,
                  inodes |-> [i \in InodeIds |-> FreeInode]]
    /\ procs = [p \in BusProcs |-> IdleProc]

NextLock ==
    \/ \E p \in BusProcs : AcquireCall(p)
    \/ \E p \in BusProcs : CleanupRead(p)
    \/ \E p \in BusProcs : CleanupUnlink(p)
    \/ \E p \in BusProcs : TryOpen(p)
    \/ \E p \in BusProcs : TryLock(p)
    \/ \E p \in BusProcs : WriteInfo(p)
    \/ \E p \in BusProcs, timed_out \in BOOLEAN : Retry(p, timed_out)
    \/ \E p \in BusProcs : Release(p)
    \/ Tick

SpecLock == InitLock /\ [][NextLock]_vars

\* the processes between a successful acquire and its release
Holders == {p \in BusProcs : procs[p].pc = "held"}

(***************************************************************************)
(* C12: at every instant at most one process holds the pheromone bus lock, *)
(* under any interleaving of acquirers, stale-lock cleanup included.       *)
(***************************************************************************)
C12_LockExclusive == Cardinality(Holders) <= 1

(***************************************************************************)
(* The shared state file pheromone.json and its writers (pheromone.py,     *)
(* hive-coordinator.py).  A document keeps the list active_pheromones and  *)
(* the list workers; the other keys and an entry's strength are left out.  *)
(* An entry is [id, timestamp, ttl], a worker [id, status].  The file is a *)
(* document that is complete or, between the truncating open and the end   *)
(* of json.dump of an in-place write, partial; file.writers holds the      *)
(* processes that have it open for such a write.  A rename puts a new file *)
(* in its place, and a process that still has the old one open writes into *)
(* a file no path names.                                                   *)
(***************************************************************************)
MaxEmits == 2

DEFAULT_TTL == 300

EmptyDoc == [active |-> <<>>, workers |-> <<>>]

PheromoneEntry(id, timestamp, ttl) == [id |-> id, timestamp |-> timestamp, ttl |-> ttl]

\* a variant of the decay test that keeps an entry whose age equals its ttl
entry_survives_or_equal(entry, now, ttl) ==
    (now - entry.timestamp) <= (IF ttl # <<>> THEN ttl[1] ELSE entry.ttl)

\* the test of decay_pheromones on one entry: age_seconds < entry_ttl
entry_survives(entry, now, ttl) ==
    (now - entry.timestamp) < (IF ttl # <<>> THEN ttl[1] ELSE entry.ttl)

\* _write_entry: the document with the entry appended
with_entry(data, entry) == [data EXCEPT !.active = Append(@, entry)]

\* update_worker_status: the first worker with the id is updated, else one is appended
with_worker_status(data, worker_id, status) ==
    LET found == {k \in 1..Len(data.workers) : data.workers[k].id = worker_id}
    IN  IF found = {}
        THEN [data EXCEPT !.workers = Append(@, [id |-> worker_id, status |-> status])]
        ELSE LET k == CHOOSE k \in found : \A j \in found : k <= j
             IN  [data EXCEPT !.workers[k].status = status]

\* decay_pheromones: the document with the surviving entries; ttl is the
\* override, <<>> for None
with_decay(data, now, ttl) ==
    [data EXCEPT !.active = SelectSeq(@, LAMBDA e : entry_survives(e, now, ttl))]

(***************************************************************************)
(* The writers as the steps of a process.  A process is at one of          *)
(*   "idle"      outside every call                                        *)
(*   "read"      about to _read_pheromone and change the data read         *)
(*   "acquire"   data ready, about to enter "with FileLock(...)"           *)
(*   "tmp"       lock held, about to write pheromone.tmp                   *)
(*   "replace"   about to rename pheromone.tmp over pheromone.json         *)
(*   "release"   about to leave the with block and return                  *)
(*   "truncate"  hive-coordinator: about to open pheromone.json with 'w'   *)
(*   "dump"      hive-coordinator: file truncated, json.dump not yet done  *)
(* The lock is taken to work as a lock here.  bus.emits holds the entries  *)
(* whose emit has returned, bus.updates the worker ids whose status update *)
(* has returned, bus.coordinated whether hive-coordinator has written, and *)
(* bus.bad_reads whether a read met a partial document.                    *)
(***************************************************************************)
BusWorkerIds == {"worker-1"}

EntryTtls == {ClockStep, DEFAULT_TTL}

IdleBusProc == [pc |-> "idle", op |-> "", data |-> EmptyDoc, arg |-> <<>>]

BusStep(p, B, t) ==
    /\ bus' = B
    /\ procs' = [procs EXCEPT ![p] = t]
    /\ UNCHANGED <<dagVars, poolVars, queenVars, drone>>

\* EnhancedPheromoneManager.emit up to _write_entry
EmitCall(p, ttl) ==
    /\ procs[p].pc = "idle"
    /\ bus.emitted < MaxEmits
    /\ BusStep(p, [bus EXCEPT !.emitted = @ + 1],
               [pc |-> "read", op |-> "emit", data |-> EmptyDoc,
                arg |-> <<PheromoneEntry(bus.emitted + 1, bus.now, ttl)>>])

UpdateWorkerStatusCall(p, worker_id) ==
    /\ procs[p].pc = "idle"
    /\ BusStep(p, bus, [pc |-> "read", op |-> "update_worker_status", data |-> EmptyDoc,
                        arg |-> <<worker_id>>])

DecayCall(p) ==
    /\ procs[p].pc = "idle"
    /\ BusStep(p, bus, [pc |-> "read", op |-> "decay_pheromones", data |-> EmptyDoc,
                        arg |-> <<>>])

\* PreToolUseHandler.handle of hive-coordinator up to _update_worker_status
CoordinatorCall(p, worker_id) ==
    /\ procs[p].pc = "idle"
    /\ BusStep(p, [bus EXCEPT !.coordinated = TRUE],
               [pc |-> "read", op |-> "coordinator", data |-> EmptyDoc, arg |-> <<worker_id>>])

\* a plain reader: is_hive_active, get_active_trails, ...
ReadCall(p) ==
    /\ procs[p].pc = "idle"
    /\ BusStep(p, [bus EXCEPT !.bad_reads = @ \/ bus.file.partial], procs[p])

\* _read_pheromone and the change of the data read; json.load raises on a
\* partial document and the call ends there
ReadModify(p) ==
    LET t == procs[p]
        d == bus.file.doc
    IN  /\ t.pc = "read"
        /\ IF bus.file.partial
           THEN BusStep(p, [bus EXCEPT !.bad_reads = TRUE], IdleBusProc)
           ELSE BusStep(p, bus,
                    [t EXCEPT !.pc = IF t.op = "coordinator" THEN "truncate" ELSE "acquire",
                              !.data = CASE t.op = "emit" -> with_entry(d, t.arg[1])
                                         [] t.op = "decay_pheromones" -> with_decay(d, bus.now, <<>>)
                                         [] OTHER -> with_worker_status(d, t.arg[1], "busy")])

\* with FileLock(self.lock_file): entered when no process holds the lock;
\* acquire gives up after its timeout while another process holds it
LockEnter(p, timed_out) ==
    /\ procs[p].pc = "acquire"
    /\ IF bus.lock = <<>>
       THEN BusStep(p, [bus EXCEPT !.lock = <<p>>], [procs[p] EXCEPT !.pc = "tmp"])
       ELSE timed_out /\ BusStep(p, bus, IdleBusProc)

\* _write_pheromone_atomic: json.dump into pheromone.tmp
WriteTmp(p) ==
    /\ procs[p].pc = "tmp"
    /\ BusStep(p, [bus EXCEPT !.tmp = <<procs[p].data>>], [procs[p] EXCEPT !.pc = "replace"])

\* _write_pheromone_atomic: temp_file.replace(pheromone_file)
ReplaceFile(p) ==
    /\ procs[p].pc = "replace"
    /\ BusStep(p, [bus EXCEPT !.file = [doc |-> bus.tmp[1], partial |-> FALSE, writers |-> {}],
                              !.tmp = <<>>],
               [procs[p] EXCEPT !.pc = "release"])

\* the end of the with block and the return of the call
LockLeave(p) ==
    LET t == procs[p]
    IN  /\ t.pc = "release"
        /\ BusStep(p, [bus EXCEPT !.lock = <<>>,
                                  !.emits = IF t.op = "emit" THEN @ \cup {t.arg[1]} ELSE @,
                                  !.updates = IF t.op = "update_worker_status"
                                              THEN @ \cup {t.arg[1]} ELSE @],
                   IdleBusProc)

\* HiveCoordinator._write_pheromone: open(pheromone_file, 'w')
Truncate(p) ==
    /\ procs[p].pc = "truncate"
    /\ BusStep(p, [bus EXCEPT !.file = [doc |-> EmptyDoc, partial |-> TRUE,
                                         writers |-> bus.file.writers \cup {p}]],
               [procs[p] EXCEPT !.pc = "dump"])

\* HiveCoordinator._write_pheromone: json.dump done, file closed
Dump(p) ==
    /\ procs[p].pc = "dump"
    /\ BusStep(p, IF p \in bus.file.writers
                  THEN [bus EXCEPT !.file = [doc |-> procs[p].data, partial |-> FALSE,
                                             writers |-> bus.file.writers \ {p}]]
                  ELSE bus,
               IdleBusProc)

InitBus ==
    /\ dag = NewDAG /\ dag_call = Call("init", "") /\ dag_ok = TRUE
    /\ IdleRest
    /\ drone = <<>>
    /\ bus = [now |-> 0, lock |-> <<>>,
              file |-> [doc |-> EmptyDoc, partial |-> FALSE, writers |-> {}],
              tmp |-> <<>>, emitted |-> 0, emits |-> {}, updates |-> {},
              coordinated |-> FALSE, bad_reads |-> FALSE]
    /\ procs = [p \in BusProcs |-> IdleBusProc]

NextBus ==
    \/ \E p \in BusProcs : EmitCall(p, DEFAULT_TTL)
    \/ \E p \in BusProcs, w \in BusWorkerIds : UpdateWorkerStatusCall(p, w)
    \/ \E p \in BusProcs : DecayCall(p)
    \/ \E p \in BusProcs, w \in BusWorkerIds : CoordinatorCall(p, w)
    \/ \E p \in BusProcs : ReadCall(p)
    \/ \E p \in BusProcs : ReadModify(p)
    \/ \E p \in BusProcs, timed_out \in BOOLEAN : LockEnter(p, timed_out)
    \/ \E p \in BusProcs : WriteTmp(p)
    \/ \E p \in BusProcs : ReplaceFile(p)
    \/ \E p \in BusProcs : LockLeave(p)
    \/ \E p \in BusProcs : Truncate(p)
    \/ \E p \in BusProcs : Dump(p)
    \/ Tick

SpecBus == InitBus /\ [][NextBus]_vars

(***************************************************************************)
(* C13: once all concurrent emit, update_worker_status and decay_pheromones*)
(* calls have returned, the shared state holds every emitted entry that    *)
(* has not expired and every worker whose status was updated.              *)
(***************************************************************************)
C13_NoLostUpdate ==
    (\A p \in BusProcs : procs[p].pc = "idle") /\ ~bus.coordinated =>
        /\ \A e \in bus.emits :
               entry_survives(e, bus.now, <<>>) => Contains(bus.file.doc.active, e)
        /\ \A w \in bus.updates :
               \E k \in 1..Len(bus.file.doc.workers) : bus.file.doc.workers[k].id = w

(***************************************************************************)
(* C14: a reader of pheromone.json that runs concurrently with any writer  *)
(* of the file never reads a truncated or partially written document.      *)
(***************************************************************************)
C14_NoPartialRead == ~bus.bad_reads

(***************************************************************************)
(* emit and decay_pheromones as whole calls of a single process: no other  *)
(* writer runs.  bus.last keeps, for the last call, its name, the ttl      *)
(* override given, the time of the call and the live set before it.        *)
(***************************************************************************)
\* EnhancedPheromoneManager.emit with _write_entry and write_pheromone
emit(B, ttl) ==
    LET entry == PheromoneEntry(B.emitted + 1, B.now, ttl)
    IN  [B EXCEPT !.emitted = @ + 1,
                  !.file.doc = with_entry(@, entry),
                  !.emits = @ \cup {entry}]

\* EnhancedPheromoneManager.decay_pheromones with write_pheromone
decay_pheromones(B, ttl) == [B EXCEPT !.file.doc = with_decay(@, B.now, ttl)]

LastCall(op, ttl, B) ==
    [op |-> op, ttl |-> ttl, at |-> B.now, before |-> B.file.doc.active]

DecayStep(B) ==
    /\ bus' = B
    /\ UNCHANGED <<procs, dagVars, poolVars, queenVars, drone>>

Emit(ttl) ==
    /\ bus.emitted < MaxEmits
    /\ DecayStep([emit(bus, ttl) EXCEPT !.last = LastCall("emit", <<ttl>>, bus)])

\* decay_pheromones(ttl): ttl is <<>> for a call without the override
DecayPheromones(ttl) ==
    DecayStep([decay_pheromones(bus, ttl) EXCEPT
                   !.last = LastCall("decay_pheromones", ttl, bus)])

TickDecay ==
    /\ bus.now + ClockStep <= MaxClock
    /\ DecayStep([bus EXCEPT !.now = @ + ClockStep])

InitDecay ==
    /\ dag = NewDAG /\ dag_call = Call("init", "") /\ dag_ok = TRUE
    /\ IdleRest
    /\ drone = <<>>
    /\ bus = [now |-> 0, lock |-> <<>>,
              file |-> [doc |-> EmptyDoc, partial |-> FALSE, writers |-> {}],
              tmp |-> <<>>, emitted |-> 0, emits |-> {}, updates |-> {},
              coordinated |-> FALSE, bad_reads |-> FALSE,
              last |-> [op |-> "init", ttl |-> <<>>, at |-> 0, before |-> <<>>]]
    /\ procs = <<>>

NextDecay ==
    \/ \E ttl \in EntryTtls \cup {0} : Emit(ttl)
    \/ \E ttl \in {<<>>, <<ClockStep>>} : DecayPheromones(ttl)
    \/ TickDecay

SpecDecay == InitDecay /\ [][NextDecay]_vars

(***************************************************************************)
(* C15: after decay_pheromones() has run at time t with no concurrent      *)
(* writer, the live set holds exactly the entries that were live before    *)
(* the sweep and have timestamp + ttl > t: no entry with                   *)
(* timestamp + ttl <= t remains, no unexpired entry is removed, and none   *)
(* is added or repeated.                                                   *)
(***************************************************************************)
C15_DecayExact ==
    bus.last.op = "decay_pheromones" /\ bus.last.ttl = <<>> =>
        LET before == bus.last.before
            live == bus.file.doc.active
            t == bus.last.at
        IN  /\ \A e \in Range(live) : e \in Range(before) /\ e.timestamp + e.ttl > t
            /\ \A e \in Range(before) : e.timestamp + e.ttl > t => e \in Range(live)
            /\ \A e \in Range(live) : Count(live, e) = Count(before, e)

\* a sweep without override met an entry whose age equals its ttl, which it
\* removed, and a younger one, which it kept
C15_Witness ==
    /\ bus.last.op = "decay_pheromones" /\ bus.last.ttl = <<>>
    /\ \E e \in Range(bus.last.before) :
           e.timestamp + e.ttl = bus.last.at /\ e.ttl > 0 /\ ~Contains(bus.file.doc.active, e)
    /\ \E e \in Range(bus.last.before) :
           e.timestamp < bus.last.at /\ Contains(bus.file.doc.active, e)

\* ---------------------------------------------------------------------
\* TaskQueue under concurrent callers.  Every method runs its whole body
\* inside "with self._lock", so the calls of different threads are
\* serialised: one action per call, taken in any order.  pool is the queue,
\* pool_call the last call and its result, pool_hist the tasks put (in
\* order of their put) and the tasks returned by get (in order of return).

MaxPuts == 4

\* TaskQueue.peek: <<>> for None
queue_peek(Q) ==
    LET nonempty == SelectSeq(TaskPriority, LAMBDA p : Q[p] # <<>>)
    IN  IF nonempty = <<>> THEN <<>> ELSE <<Head(Q[nonempty[1]])>>

\* values of the TaskPriority members
PriorityValue == [HIGH |-> 1, MEDIUM |-> 2, LOW |-> 3]

QueueStep(Q, call, hist) ==
    /\ pool' = Q
    /\ pool_call' = call
    /\ pool_hist' = hist
    /\ UNCHANGED <<dag, dag_call, dag_ok, queen, threads, queen_hist, restVars>>

QueuePut(priority) ==
    /\ Len(pool_hist.put) < MaxPuts
    /\ LET task == WorkerTask(Len(pool_hist.put) + 1, priority)
       IN  QueueStep(queue_put(pool, task), [op |-> "put", result |-> <<>>],
                     [pool_hist EXCEPT !.put = Append(@, task)])

QueueGet ==
    LET r == queue_get(pool)
    IN  QueueStep(r.queue, [op |-> "get", result |-> r.task],
                  [pool_hist EXCEPT !.got = @ \o r.task])

QueuePeek ==
    QueueStep(pool, [op |-> "peek", result |-> queue_peek(pool)], pool_hist)

QueueSize ==
    QueueStep(pool, [op |-> "size", result |-> <<queue_size(pool)>>], pool_hist)

InitQueue ==
    /\ DagInit
    /\ queen = <<>> /\ threads = <<>> /\ queen_hist = <<>>
    /\ pool = NewTaskQueue
    /\ pool_call = [op |-> "init", result |-> <<>>]
    /\ pool_hist = [put |-> <<>>, got |-> <<>>]

NextQueue ==
    \/ \E priority \in Range(TaskPriority) : QueuePut(priority)
    \/ QueueGet
    \/ QueuePeek
    \/ QueueSize

SpecQueue == InitQueue /\ [][NextQueue]_vars

\* position of a task in the order of the puts
PutIndex(task) == CHOOSE i \in 1..Len(pool_hist.put) : pool_hist.put[i] = task

\* tasks put and not returned before the last get
PendingBefore(got) == Range(pool_hist.put) \ Range(got)

\* C16: get returns the oldest-enqueued task of the highest-priority
\* non-empty band (HIGH before MEDIUM before LOW), removes it, and returns
\* None only when every band is empty; across any interleaving of put and
\* get calls no task is returned twice and every task put is either
\* returned or still in the queue.
C16_GetOrder ==
    LET queued == Range(pool.HIGH) \cup Range(pool.MEDIUM) \cup Range(pool.LOW)
        got == pool_hist.got
    IN  /\ \A i, j \in 1..Len(got) : got[i] = got[j] => i = j
        /\ queued \cap Range(got) = {}
        /\ queued \cup Range(got) = Range(pool_hist.put)
        /\ queue_size(pool) = Cardinality(queued)
        /\ pool_call.op = "get" =>
             IF pool_call.result = <<>>
             THEN PendingBefore(got) = {}
             ELSE LET r == pool_call.result[1]
                      before == PendingBefore(SubSeq(got, 1, Len(got) - 1))
                  IN  /\ got[Len(got)] = r
                      /\ r \in before
                      /\ r \notin queued
                      /\ \A t \in before :
                            \/ PriorityValue[r.priority] < PriorityValue[t.priority]
                            \/ /\ r.priority = t.priority
                               /\ PutIndex(r) <= PutIndex(t)

\* a get has returned a HIGH task that was put after an older LOW task and
\* after another HIGH task still to come
C16_Witness ==
    /\ pool_call.op = "get"
    /\ pool_call.result # <<>>
    /\ pool_call.result[1].priority = "HIGH"
    /\ pool.HIGH # <<>>
    /\ pool.LOW # <<>>
    /\ PutIndex(Head(pool.LOW)) < PutIndex(pool_call.result[1])

\* ---------------------------------------------------------------------
\* WorkerPool, one whole call at a time (no second thread inside
\* submit_task).  pool_hist.stats[w] holds completed_tasks and failed_tasks
\* of worker w; after a release_worker call pool_hist.before and
\* pool_hist.stats_before are the pool and the statistics when the call
\* started.

MaxOpsQueue == 2      \* most tasks waiting in the task queue
MaxReleases == 2      \* most release_worker calls counted in the statistics

\* the Worker dataclass defaults of completed_tasks and failed_tasks
NewStatistics == [completed_tasks |-> 0, failed_tasks |-> 0]

\* statistics of the workers the pool holds
statistics_of(S, P) ==
    [w \in DOMAIN P.workers |-> IF w \in DOMAIN S THEN S[w] ELSE NewStatistics]

\* a release that counts the task as completed and as failed
release_statistics_both(S, P, worker_id, success) ==
    IF worker_id \notin DOMAIN P.workers THEN S
    ELSE [S EXCEPT ![worker_id] = [completed_tasks |-> @.completed_tasks + 1,
                                   failed_tasks |-> @.failed_tasks + 1]]

\* WorkerPool.release_worker, "Update statistics"
release_statistics(S, P, worker_id, success) ==
    IF worker_id \notin DOMAIN P.workers THEN S
    ELSE IF success
         THEN [S EXCEPT ![worker_id].completed_tasks = @ + 1]
         ELSE [S EXCEPT ![worker_id].failed_tasks = @ + 1]

\* WorkerPool.submit_task with no other caller of the pool: the polling
\* loop of wait=True repeats an assign_cell that returned None on an
\* unchanged pool
submit_task(P, task) ==
    LET r == assign_cell(P, task)
    IN  IF r.worker # <<>> THEN r
        ELSE [pool |-> [P EXCEPT !.task_queue = queue_put(@, task)], worker |-> <<>>]

\* WorkerPool.stop: _cleanup_all_workers sets every worker STOPPED
stop(P) ==
    [P EXCEPT !.workers = [w \in DOMAIN P.workers |-> [P.workers[w] EXCEPT !.state = "stopped"]]]

\* one invocation of the on_task_complete callback: task_id is a cell id
\* (kind "cell") or, with no current task, the worker id (kind "worker")
TaskComplete(kind, cell_id, worker_id, success) ==
    [kind |-> kind, cell_id |-> cell_id, worker_id |-> worker_id, success |-> success]

\* WorkerPool.release_worker, "Callback": the invocations of the registered
\* on_task_complete callback, made after the worker has been reset
release_callbacks(P, worker_id, success) ==
    IF worker_id \notin DOMAIN P.workers THEN <<>>
    ELSE LET worker == [P.workers[worker_id] EXCEPT !.current_task = <<>>, !.state = "idle"]
         IN  IF worker.current_task # <<>>
             THEN <<TaskComplete("cell", worker.current_task[1].cell_id, 0, success)>>
             ELSE <<TaskComplete("worker", "", worker_id, success)>>

\* the "for w_id in stopped" loop of _cleanup_stopped_workers
RECURSIVE cleanup_loop(_, _)
cleanup_loop(P, stopped) ==
    IF stopped = <<>> THEN P
    ELSE IF Len(P.order) > P.min_workers
    THEN cleanup_loop([P EXCEPT !.workers = Without(@, Head(stopped)),
                                !.order = RemoveFirst(@, Head(stopped))], Tail(stopped))
    ELSE cleanup_loop(P, Tail(stopped))

\* WorkerPool._cleanup_stopped_workers, a step of the monitor thread
cleanup_stopped_workers(P) ==
    cleanup_loop(P, SelectSeq(P.order, LAMBDA w : P.workers[w].state = "stopped"))

\* the releases counted so far, over the workers of order
RECURSIVE released(_, _)
released(S, order) ==
    IF order = <<>> THEN 0
    ELSE S[Head(order)].completed_tasks + S[Head(order)].failed_tasks
         + released(S, Tail(order))

OpsCall(op, worker_id, success) == [op |-> op, worker_id |-> worker_id, success |-> success]

OpsStep(P, S, call) ==
    /\ P.worker_counter <= MaxSpawn
    /\ queue_size(P.task_queue) <= MaxOpsQueue
    /\ pool' = P
    /\ pool_call' = call
    /\ pool_hist' = [monitor |-> IF call.op = "start" THEN TRUE
                                 ELSE IF call.op = "stop" THEN FALSE
                                 ELSE pool_hist.monitor,
                     callbacks |-> IF call.op = "release_worker"
                                   THEN release_callbacks(pool, call.worker_id, call.success)
                                   ELSE <<>>,
                     stats |-> statistics_of(S, P),
                     before |-> IF call.op = "release_worker" THEN pool ELSE <<>>,
                     stats_before |-> IF call.op = "release_worker"
                                      THEN statistics_of(pool_hist.stats, P) ELSE <<>>]
    /\ UNCHANGED <<dagVars, queen, queen_hist, threads, restVars>>

OpsStart == OpsStep(start(pool), pool_hist.stats, OpsCall("start", 0, TRUE))

OpsStop == OpsStep(stop(pool), pool_hist.stats, OpsCall("stop", 0, TRUE))

OpsAssignCell(task) ==
    OpsStep(assign_cell(pool, task).pool, pool_hist.stats, OpsCall("assign_cell", 0, TRUE))

OpsSubmitTask(task) ==
    OpsStep(submit_task(pool, task).pool, pool_hist.stats, OpsCall("submit_task", 0, TRUE))

OpsReleaseWorker(worker_id, success) ==
    /\ released(pool_hist.stats, pool.order) < MaxReleases
    /\ OpsStep(release_worker(pool, worker_id, success).pool,
               release_statistics(statistics_of(pool_hist.stats, pool), pool, worker_id, success),
               OpsCall("release_worker", worker_id, success))

OpsMonitorHeartbeat(stale) ==
    OpsStep(monitor_heartbeat(pool, stale).pool, pool_hist.stats,
            OpsCall("monitor_heartbeat", 0, TRUE))

\* the monitor thread that start() launches runs until stop()
OpsCleanupStoppedWorkers ==
    /\ pool_hist.monitor
    /\ OpsStep(cleanup_stopped_workers(pool), pool_hist.stats,
               OpsCall("cleanup_stopped_workers", 0, TRUE))

OpsTaskStealing ==
    OpsStep(task_stealing(pool).pool, pool_hist.stats, OpsCall("task_stealing", 0, TRUE))

InitPoolOps ==
    /\ DagInit
    /\ pool = NewPool(MinWorkers, MaxWorkers)
    /\ pool_call = OpsCall("init", 0, TRUE)
    /\ pool_hist = [monitor |-> FALSE, callbacks |-> <<>>, stats |-> <<>>, before |-> <<>>, stats_before |-> <<>>]
    /\ threads = <<>>
    /\ queen = <<>>
    /\ queen_hist = <<>>

NextPoolOps ==
    \/ OpsStart
    \/ OpsStop
    \/ \E task \in PoolTasks : OpsAssignCell(task)
    \/ \E task \in PoolTasks : OpsSubmitTask(task)
    \/ \E worker_id \in 1..MaxSpawn, success \in BOOLEAN : OpsReleaseWorker(worker_id, success)
    \/ \E stale \in SUBSET (DOMAIN pool.workers) : OpsMonitorHeartbeat(stale)
    \/ OpsCleanupStoppedWorkers
    \/ OpsTaskStealing

SpecPoolOps == InitPoolOps /\ [][NextPoolOps]_vars

\* the task at the head of the queue: first of the best non-empty band
QueueHead(Q) ==
    IF Q.HIGH # <<>> THEN Head(Q.HIGH)
    ELSE IF Q.MEDIUM # <<>> THEN Head(Q.MEDIUM) ELSE Head(Q.LOW)

\* the queue without its head
QueueRest(Q) ==
    IF Q.HIGH # <<>> THEN [Q EXCEPT !.HIGH = Tail(@)]
    ELSE IF Q.MEDIUM # <<>> THEN [Q EXCEPT !.MEDIUM = Tail(@)]
    ELSE [Q EXCEPT !.LOW = Tail(@)]

ReleasedBusy ==
    /\ pool_call.op = "release_worker"
    /\ pool_call.worker_id \in DOMAIN pool_hist.before.workers
    /\ pool_hist.before.workers[pool_call.worker_id].state = "busy"

\* C17: release_worker(w, success) on a busy worker w adds 1 to exactly one
\* of w's counters (completed_tasks on success, failed_tasks on failure)
\* and clears w's task; then, with a non-empty queue, the queue's head is
\* removed and bound to a worker that was idle, and with an empty queue w
\* is left idle with no task.
C17_ReleaseWorker ==
    ReleasedBusy =>
        LET w == pool_call.worker_id
            old == pool_hist.before
            s0 == pool_hist.stats_before[w]
            s1 == pool_hist.stats[w]
            \* the workers as they are once w is reset
            reset == [old.workers EXCEPT ![w] = Worker("idle", <<>>)]
        IN  /\ s1.completed_tasks = s0.completed_tasks + (IF pool_call.success THEN 1 ELSE 0)
            /\ s1.failed_tasks = s0.failed_tasks + (IF pool_call.success THEN 0 ELSE 1)
            /\ \A v \in DOMAIN pool_hist.stats \ {w} : pool_hist.stats[v] = pool_hist.stats_before[v]
            /\ IF queue_size(old.task_queue) = 0
               THEN /\ pool.workers = reset
                    /\ pool.task_queue = old.task_queue
               ELSE /\ pool.task_queue = QueueRest(old.task_queue)
                    /\ \E v \in DOMAIN reset :
                          /\ reset[v].state = "idle"
                          /\ pool.workers =
                                 [reset EXCEPT ![v] = Worker("busy", <<QueueHead(old.task_queue)>>)]

\* a failed release of a busy worker with two tasks of different bands
\* waiting, the older one in the lower band
C17_Witness ==
    /\ ReleasedBusy
    /\ ~pool_call.success
    /\ pool_hist.before.task_queue.HIGH # <<>>
    /\ pool_hist.before.task_queue.MEDIUM # <<>>
    /\ pool.task_queue.HIGH = <<>>
    /\ \E v \in DOMAIN pool.workers : pool.workers[v].state = "busy"

\* C18: in every state of the pool each worker has a current_task if and
\* only if its state is busy.
C18_TaskIffBusy ==
    \A w \in DOMAIN pool.workers :
        (pool.workers[w].current_task # <<>>) <=> (pool.workers[w].state = "busy")

\* C19: once a worker of the scheduler is stopped, no operation on it while
\* the scheduler stays stopped (release_worker, resolve_blocker, an
\* assignment, a heartbeat check, the end of an in-flight task) gives it
\* another state.
C19_StoppedIsFinal ==
    [][(queen.state = "stopped" /\ queen'.state = "stopped") =>
         \A w \in DOMAIN queen.workers :
            (queen.workers[w].state = "stopped" /\ w \in DOMAIN queen'.workers)
                => queen'.workers[w].state = "stopped"]_vars

\* ---------------------------------------------------------------------
\* DroneValidator.cross_validate.  Each drone's validate_cell returns a
\* report with an integer consensus_score and consensus_reached =
\* (consensus_score >= CONSENSUS_THRESHOLD); cross_validate combines them.
\* The quotients avg_score and score_variance are kept as fractions
\* [num, den] and compared by cross-multiplication.

MaxDrones == 5
CONSENSUS_THRESHOLD == 90

\* consensus scores a drone may return
DroneScores == {0, 75, 85, 89, 90, 100}

\* the part of a validate_cell report cross_validate reads
validate_cell(score) ==
    [consensus_score |-> score, consensus_reached |-> score >= CONSENSUS_THRESHOLD]

RECURSIVE SumSeq(_)
SumSeq(ns) == IF ns = <<>> THEN 0 ELSE Head(ns) + SumSeq(Tail(ns))

\* a < b for a fraction a and an integer b (denominators are positive)
FracLess(a, b) == a.num < b * a.den

\* sum(scores) / len(scores)
avg_score(scores) == [num |-> SumSeq(scores), den |-> Len(scores)]

\* a variance that is always zero
score_variance_none(scores) == [num |-> 0, den |-> 1]

\* score_variance: sum((s - avg_score) ** 2 for s in scores) / len(scores),
\* and 0 for a single score; (s - avg) ** 2 = (n * s - sum) ** 2 / n ** 2
score_variance(scores) ==
    LET n == Len(scores)
        avg == avg_score(scores)
        sq == [i \in 1..n |-> (avg.den * scores[i] - avg.num) * (avg.den * scores[i] - avg.num)]
    IN  IF n > 1 THEN [num |-> SumSeq(sq), den |-> avg.den * avg.den * n]
        ELSE [num |-> 0, den |-> 1]

\* DroneValidator.cross_validate over the reports of the drones
cross_validate(all_results) ==
    LET scores == [i \in 1..Len(all_results) |-> all_results[i].consensus_score]
    IN  IF Len(scores) = 0 THEN [raised |-> "ZeroDivisionError"]
        ELSE LET avg == avg_score(scores)
                 variance == score_variance(scores)
                 all_pass == \A i \in 1..Len(all_results) : all_results[i].consensus_reached
             IN  [raised |-> "",
                  drone_count |-> Len(all_results),
                  average_score |-> avg.num \div avg.den,
                  score_variance |-> variance.num \div variance.den,
                  all_drones_pass |-> all_pass,
                  consensus_reached |->
                      /\ ~FracLess(avg, CONSENSUS_THRESHOLD)
                      /\ FracLess(variance, 100)
                      /\ (all_pass \/ ~FracLess(avg, 95))]

CrossValidate ==
    /\ drone.report = <<>>
    /\ drone' = [drone EXCEPT !.report = <<cross_validate(drone.results)>>]
    /\ UNCHANGED <<dagVars, poolVars, queenVars, bus, procs>>

InitDrone ==
    /\ dag = NewDAG /\ dag_call = Call("init", "") /\ dag_ok = TRUE
    /\ IdleRest
    /\ bus = <<>> /\ procs = <<>>
    /\ \E scores \in SeqsUpTo(DroneScores, MaxDrones) :
           drone = [results |-> [i \in 1..Len(scores) |-> validate_cell(scores[i])],
                    report |-> <<>>]

NextDrone == CrossValidate

SpecDrone == InitDrone /\ [][NextDrone]_vars

\* the drones' scores
ReportedScores == [i \in 1..Len(drone.results) |-> drone.results[i].consensus_score]

\* n * sum(s ** 2) - sum(s) ** 2, which is n ** 2 times the population variance
VarianceTimesN2(scores) ==
    Len(scores) * SumSeq([i \in 1..Len(scores) |-> scores[i] * scores[i]])
        - SumSeq(scores) * SumSeq(scores)

validated_after(validated, op, cell_id) == validated

\* the blocker entries on the bus after a call: handle_blocker alone
\* appends one, for a cell the store holds
blockers_after(Q, blockers, op, cell_id) ==
    IF op = "handle_blocker" /\ cm_has_cell(Q, cell_id) THEN blockers \cup {cell_id}
    ELSE blockers

TaskLast(op, worker_id, cell_id, outcome) ==
    [op |-> op, worker_id |-> worker_id, cell_id |-> cell_id, outcome |-> outcome]

CellTaskStep(Q, task, last) ==
    /\ queen' = Q
    /\ queen_hist' = [task |-> task, last |-> last,
                      validated |-> validated_after(queen_hist.validated, last.op, last.cell_id),
                      blockers |-> blockers_after(queen, queen_hist.blockers, last.op, last.cell_id)]
    /\ UNCHANGED <<dagVars, poolVars, threads, restVars>>

CellTaskRun(cell_id) ==
    LET r == run_cell(queen, cell_id)
    IN  /\ r.worker # <<>>
        /\ queen_hist.task[r.worker[1]] = <<>>
        /\ CellTaskStep(r.queen, [queen_hist.task EXCEPT ![r.worker[1]] = <<cell_id>>],
                        TaskLast("run_cell", r.worker[1], cell_id, ""))

CellTaskEnd(worker_id, outcome) ==
    /\ queen_hist.task[worker_id] # <<>>
    /\ CellTaskStep(execute_cell_task_end(queen, worker_id, outcome),
                    [queen_hist.task EXCEPT ![worker_id] = <<>>],
                    TaskLast("execute_cell_task", worker_id, queen_hist.task[worker_id][1], outcome))

CellTaskHandleBlocker(cell_id) ==
    CellTaskStep(handle_blocker(queen, cell_id), queen_hist.task,
                 TaskLast("handle_blocker", 0, cell_id, ""))

CellTaskResolveBlocker(cell_id) ==
    CellTaskStep(resolve_blocker(queen, cell_id), queen_hist.task,
                 TaskLast("resolve_blocker", 0, cell_id, ""))

InitCellTask ==
    /\ DagInit
    /\ pool = <<>> /\ pool_call = <<>> /\ pool_hist = <<>>
    /\ threads = <<>>
    /\ queen = queen_start(NewQueen(MaxQueenWorkers,
                   [c \in CellIds |-> [status |-> "pending",
                                       dependencies |-> IF c = "c" THEN <<"a">> ELSE <<>>]],
                   <<"a", "b", "c">>))
    /\ queen_hist = [task |-> [w \in QueenWorkerIds |-> <<>>],
                     last |-> TaskLast("start", 0, "", ""),
                     validated |-> {}, blockers |-> {}]

NextCellTask ==
    \/ \E c \in CellIds : CellTaskRun(c)
    \/ \E w \in QueenWorkerIds, o \in Outcomes : CellTaskEnd(w, o)
    \/ \E c \in CellIds : CellTaskHandleBlocker(c)
    \/ \E c \in CellIds : CellTaskResolveBlocker(c)

SpecCellTask == InitCellTask /\ [][NextCellTask]_vars

\* the cells that depend on cell_id, directly or through other cells
RECURSIVE StoreDependents(_, _, _)
StoreDependents(Q, found, n) ==
    IF n = 0 THEN found
    ELSE StoreDependents(Q,
             found \cup {c \in DOMAIN Q.cells :
                            \E d \in found : Contains(Q.cells[c].dependencies, d)},
             n - 1)

\* C21: a cell has status completed only if the Drone Validator was run on
\* it after the agent's exit and reached consensus.
C21_CompletedOnlyValidated ==
    \A c \in DOMAIN queen.cells :
        queen.cells[c].status = "completed" => c \in queen_hist.validated

\* C24: once _execute_cell_task has handled an agent that exited nonzero,
\* timed out or could not be started, the worker is released (idle, no
\* cell), the cell is failed and every transitive dependent of the cell is
\* blocked.
C24_FailureBlocksDependents ==
    (queen_hist.last.op = "execute_cell_task" /\ queen_hist.last.outcome # "success") =>
        LET cell_id == queen_hist.last.cell_id
            w == queen_hist.last.worker_id
        IN  /\ queen.workers[w] = QueenWorker("idle", <<>>)
            /\ queen.cells[cell_id].status = "failed"
            /\ \A c \in StoreDependents(queen, {cell_id}, Cardinality(CellIds)) \ {cell_id} :
                   queen.cells[c].status = "blocked"

\* C26: once _execute_cell_task has handled a timeout of the agent process,
\* the worker's state is timeout, the cell is blocked and a blocker entry
\* for the cell is on the bus.
C26_TimeoutRaisesBlocker ==
    (queen_hist.last.op = "execute_cell_task" /\ queen_hist.last.outcome = "timeout") =>
        /\ queen.workers[queen_hist.last.worker_id].state = "timeout"
        /\ queen.cells[queen_hist.last.cell_id].status = "blocked"
        /\ queen_hist.last.cell_id \in queen_hist.blockers

\* ---------------------------------------------------------------------
\* Subscriptions of EnhancedPheromoneManager.  bus.subscribers is the list
\* self._subscribers (subscriber ids in order), bus.subs[s] the subscriber
\* object: active, pheromone_types, and what its callback does ("ok"
\* returns, "raise" raises an Exception, "unsubscribe" calls
\* manager.unsubscribe on its own subscriber).  bus.last is the last emit:
\* its type, the subscribers subscribed when it started, how often each
\* callback ran and whether an exception left emit.

MaxSubscribers == 3

\* two of the members of PheromoneType
PheromoneTypes == {"progress", "blocker"}

CallbackKinds == {"ok", "raise", "unsubscribe"}

\* PheromoneSubscriber.__init__: pheromone_types or list(PheromoneType);
\* the argument is <<>> for None, else <<set of types>>
NewSubscriber(pheromone_types, callback) ==
    [callback |-> callback, active |-> TRUE,
     pheromone_types |-> IF pheromone_types = <<>> \/ pheromone_types[1] = {}
                         THEN PheromoneTypes ELSE pheromone_types[1]]

\* PheromoneSubscriber.should_receive
should_receive(subscriber, type) == subscriber.active /\ type \in subscriber.pheromone_types

\* EnhancedPheromoneManager.subscribe
subscribe(B, pheromone_types, callback) ==
    LET s == Len(B.subs) + 1
    IN  [B EXCEPT !.subs = Append(@, NewSubscriber(pheromone_types, callback)),
                  !.subscribers = Append(@, s)]

\* EnhancedPheromoneManager.unsubscribe
unsubscribe(B, s) ==
    [B EXCEPT !.subs[s].active = FALSE,
              !.subscribers = IF Contains(@, s) THEN RemoveFirst(@, s) ELSE @]

\* the for loop of _notify_subscribers with PheromoneSubscriber.notify: the
\* list iterator keeps an index into self._subscribers, which a callback
\* may shorten; an Exception of the callback is swallowed by notify
RECURSIVE notify_loop(_, _, _, _)
notify_loop(B, i, type, ran) ==
    IF i > Len(B.subscribers) THEN [bus |-> B, ran |-> ran]
    ELSE LET s == B.subscribers[i]
         IN  IF ~should_receive(B.subs[s], type) THEN notify_loop(B, i + 1, type, ran)
             ELSE notify_loop(
                      IF B.subs[s].callback = "unsubscribe" THEN unsubscribe(B, s) ELSE B,
                      i + 1, type, [ran EXCEPT ![s] = @ + 1])

\* EnhancedPheromoneManager._notify_subscribers
notify_subscribers(B, type) == notify_loop(B, 1, type, [s \in 1..Len(B.subs) |-> 0])

\* EnhancedPheromoneManager.emit, as far as the subscribers go
emit_notify(B, type) ==
    LET r == notify_subscribers(B, type)
    IN  [r.bus EXCEPT !.last = [op |-> "emit", type |-> type, before |-> B.subs,
                                ran |-> r.ran, raised |-> FALSE]]

SubStep(B) ==
    /\ bus' = B
    /\ UNCHANGED <<procs, dagVars, poolVars, queenVars, drone>>

Subscribe(pheromone_types, callback) ==
    /\ Len(bus.subs) < MaxSubscribers
    /\ SubStep([subscribe(bus, pheromone_types, callback) EXCEPT !.last.op = "subscribe"])

Unsubscribe(s) ==
    /\ s \in 1..Len(bus.subs)
    /\ SubStep([unsubscribe(bus, s) EXCEPT !.last.op = "unsubscribe"])

EmitNotify(type) == SubStep(emit_notify(bus, type))

InitSub ==
    /\ dag = NewDAG /\ dag_call = Call("init", "") /\ dag_ok = TRUE
    /\ IdleRest
    /\ drone = <<>>
    /\ procs = <<>>
    /\ bus = [subs |-> <<>>, subscribers |-> <<>>,
              last |-> [op |-> "init", type |-> "", before |-> <<>>, ran |-> <<>>,
                        raised |-> FALSE]]

NextSub ==
    \/ \E t \in {<<>>} \cup {<<ts>> : ts \in SUBSET PheromoneTypes}, cb \in CallbackKinds :
           Subscribe(t, cb)
    \/ \E s \in 1..MaxSubscribers : Unsubscribe(s)
    \/ \E type \in PheromoneTypes : EmitNotify(type)

SpecSub == InitSub /\ [][NextSub]_vars

\* C22: an emit runs the callback exactly once of every subscriber that was
\* active with the entry's type in its filter when the emit started, and of
\* no other subscriber (none that was unsubscribed); no exception of a
\* callback leaves emit, and a raising callback stops no later delivery.
C22_DeliveredOnce ==
    bus.last.op = "emit" =>
        /\ ~bus.last.raised
        /\ \A s \in 1..Len(bus.last.before) :
               bus.last.ran[s] = IF should_receive(bus.last.before[s], bus.last.type)
                                 THEN 1 ELSE 0

\* ---------------------------------------------------------------------
\* PheromoneManager._read_pheromone on the shared state file.  bus.file is
\* <<>> when pheromone.json does not exist and else <<content>>; a content
\* is a document or Garbage, text json.load cannot parse.  bus.last is
\* the last call: the file it found, the exception it raised, the data it
\* returned and how many times it tried to parse the file.

MaxStatusWrites == 2

\* what the file holds: a JSON document, or text that is not JSON
Content(doc) == [parses |-> TRUE, doc |-> doc]
Garbage == [parses |-> FALSE, doc |-> EmptyDoc]

\* PheromoneManager._read_pheromone: one exists() test, one json.load
read_pheromone(file) ==
    IF file = <<>>
    THEN [file |-> file, raised |-> "", data |-> <<EmptyDoc>>, attempts |-> 0]
    ELSE IF ~file[1].parses
         THEN [file |-> file, raised |-> "JSONDecodeError", data |-> <<>>, attempts |-> 1]
         ELSE [file |-> file, raised |-> "", data |-> <<file[1].doc>>, attempts |-> 1]

\* PheromoneManager.update_worker_status: read, change, write_pheromone
update_worker_status(file, worker_id, status) ==
    LET r == read_pheromone(file)
    IN  IF r.raised # "" THEN [file |-> r.file, raised |-> r.raised]
        ELSE [file |-> <<Content(with_worker_status(r.data[1], worker_id, status))>>,
              raised |-> ""]

ReadStep(file, last) ==
    /\ bus' = [file |-> file, last |-> last]
    /\ UNCHANGED <<procs, dagVars, poolVars, queenVars, drone>>

ReadLast(op, before, raised, data, attempts) ==
    [op |-> op, before |-> before, raised |-> raised, data |-> data, attempts |-> attempts]

ReadPheromone ==
    LET r == read_pheromone(bus.file)
    IN  ReadStep(r.file, ReadLast("read", bus.file, r.raised, r.data, r.attempts))

UpdateWorkerStatus(worker_id, status) ==
    LET r == update_worker_status(bus.file, worker_id, status)
    IN  /\ bus.file # <<>> => Len(bus.file[1].doc.workers) < MaxStatusWrites
        /\ ReadStep(r.file, ReadLast("update_worker_status", bus.file, r.raised, <<>>, 0))

\* PheromoneManager.clear_all
ClearAll == ReadStep(<<Content(EmptyDoc)>>, ReadLast("clear_all", bus.file, "", <<>>, 0))

\* another program leaves text in the file that is not JSON (a writer that
\* was cut off while it rewrote the file in place)
Corrupt == ReadStep(<<Garbage>>, ReadLast("corrupt", bus.file, "", <<>>, 0))

\* the file is deleted
RemoveFile == ReadStep(<<>>, ReadLast("remove", bus.file, "", <<>>, 0))

InitRead ==
    /\ dag = NewDAG /\ dag_call = Call("init", "") /\ dag_ok = TRUE
    /\ IdleRest
    /\ drone = <<>>
    /\ procs = <<>>
    /\ bus = [file |-> <<>>, last |-> ReadLast("init", <<>>, "", <<>>, 0)]

NextRead ==
    \/ ReadPheromone
    \/ \E w \in {"worker-1", "worker-2", "worker-3"}, st \in {"busy", "idle"} :
           UpdateWorkerStatus(w, st)
    \/ ClearAll
    \/ Corrupt
    \/ RemoveFile

SpecRead == InitRead /\ [][NextRead]_vars

\* C23: a read that finds a file that does not parse rewrites a fresh empty
\* state and retries, so it returns the empty state, and a fatal error
\* comes only after 3 tries; a read that finds no file creates the empty
\* state and returns it.
C23_ReadRecovers ==
    bus.last.op = "read" =>
        /\ (bus.last.before # <<>> /\ ~bus.last.before[1].parses) =>
               /\ bus.last.raised # "" => bus.last.attempts = 3
               /\ bus.last.raised = "" =>
                      (bus.file = <<Content(EmptyDoc)>> /\ bus.last.data = <<EmptyDoc>>)
        /\ bus.last.before = <<>> =>
               /\ bus.last.raised = ""
               /\ bus.file = <<Content(EmptyDoc)>>
               /\ bus.last.data = <<EmptyDoc>>

\* ---------------------------------------------------------------------
\* the worker state machine of the WorkerState docstring, with the release
\* of a worker in error or timeout: <<from, to>>; any state may go to stopped
WorkerEdges ==
    {<<"idle", "busy">>, <<"busy", "idle">>, <<"busy", "error">>, <<"busy", "timeout">>,
     <<"busy", "blocked">>, <<"error", "idle">>, <<"timeout", "idle">>}
        \cup {<<st, "stopped">> : st \in WorkerStates}

\* C25: every change of a worker's state made by a call of the scheduler is
\* an edge of the documented machine (start, which makes new workers, aside).
C25_DocumentedEdges ==
    [][~(queen.state \in {"idle", "stopped"} /\ queen'.state = "running") =>
         \A w \in (DOMAIN queen.workers) \cap (DOMAIN queen'.workers) :
             \/ queen'.workers[w].state = queen.workers[w].state
             \/ <<queen.workers[w].state, queen'.workers[w].state>> \in WorkerEdges]_vars

\* ---------------------------------------------------------------------
\* C27: a node enters running only from pending with every dependency a
\* completed node, and enters completed only from running; a mark_running
\* or mark_completed call on a node in another situation changes nothing.
C27_RunningFromReady ==
    [][\A u \in (DOMAIN dag.nodes) \cap (DOMAIN dag'.nodes) :
           /\ (dag.nodes[u].state # "running" /\ dag'.nodes[u].state = "running") =>
                  /\ dag.nodes[u].state = "pending"
                  /\ \A d \in Range(dag.nodes[u].dependencies) :
                         d \in DOMAIN dag.nodes /\ dag.nodes[d].state = "completed"
           /\ (dag.nodes[u].state # "completed" /\ dag'.nodes[u].state = "completed") =>
                  dag.nodes[u].state = "running"]_vars

\* C28: every node in state blocked has a failed node among the cells it
\* depends on, directly or transitively.
C28_BlockedHasFailedAncestor ==
    \A u \in DOMAIN dag.nodes :
        dag.nodes[u].state = "blocked" =>
            \E v \in DependsOn(dag, u) : dag.nodes[v].state = "failed"

BlockedIds(D) == {u \in DOMAIN D.nodes : D.nodes[u].state = "blocked"}

\* a blocked cell is not ready, mark_running on it fails and changes nothing,
\* and resetting, starting or completing another cell leaves it blocked
BlockedStays ==
    \A u \in BlockedIds(dag) :
        /\ u \notin Range(get_ready_cells(dag))
        /\ mark_running(dag, u).result = <<FALSE>>
        /\ mark_running(dag, u).dag = dag
        /\ \A v \in DOMAIN dag.nodes \ {u} :
               /\ reset_cell(dag, v).dag.nodes[u].state = "blocked"
               /\ mark_running(dag, v).dag.nodes[u].state = "blocked"
               /\ mark_completed(dag, v).dag.nodes[u].state = "blocked"

\* a blocked cell never goes to running in one step, and goes back to
\* pending only by reset_cell on that cell
BlockedLeaves ==
    \A u \in BlockedIds(dag) \cap (DOMAIN dag'.nodes) :
        /\ dag'.nodes[u].state # "running"
        /\ dag'.nodes[u].state = "pending" =>
               dag_call'.op = "reset_cell" /\ dag' = reset_cell(dag, u).dag

\* C29: a blocked node is never in get_ready_cells() and cannot be marked
\* running until reset_cell is called on that node itself; resetting,
\* re-running or completing the failed ancestor leaves the node blocked.
C29_BlockedUntilReset == []BlockedStays /\ [][BlockedLeaves]_vars

\* a cell is still blocked after its only dependency, once failed, was
\* run again to completion
C29_Witness ==
    /\ dag_call.op = "mark_completed"
    /\ \E u \in BlockedIds(dag) : \E v \in DOMAIN dag.nodes :
           /\ dag.nodes[u].dependencies = <<v>>
           /\ dag.nodes[v].state = "completed"
           /\ v \notin dag.failed_ids

\* a closed walk along dependency edges: first and last element equal, each
\* element a node with the next element among its dependencies
IsDependencyCycle(D, path) ==
    /\ Len(path) >= 2
    /\ path[1] = path[Len(path)]
    /\ \A i \in 1..(Len(path) - 1) :
           /\ path[i] \in DOMAIN D.nodes
           /\ Contains(D.nodes[path[i]].dependencies, path[i + 1])
           /\ path[i] \in DependsOn(D, path[i])

\* C30: detect_cycle() returns None exactly when the graph is acyclic, and
\* otherwise a list whose first and last elements are equal, whose elements
\* all lie on a cycle, and in which each element has the next element as a
\* direct dependency.
C30_DetectCyclePath ==
    LET r == detect_cycle(dag)
    IN  /\ (r = <<>>) <=> ~HasCycle(dag)
        /\ r # <<>> => IsDependencyCycle(dag, r[1])

\* detect_cycle() has returned a path through three distinct cells
C30_Witness ==
    /\ dag_call.op \in {"add_cell", "update_dependencies"}
    /\ detect_cycle(dag) # <<>>
    /\ Len(detect_cycle(dag)[1]) = 4
    /\ Cardinality(Range(detect_cycle(dag)[1])) = 3

\* C31: whenever at least one worker of the pool is idle, error or timeout,
\* assign_cell binds the task to a worker instead of returning None.
C31_AvailableIsAssignable ==
    (\E w \in DOMAIN pool.workers : pool.workers[w].state \in {"idle", "error", "timeout"}) =>
        \A task \in PoolTasks : assign_cell(pool, task).worker # <<>>

\* C32: the pool never holds more workers than max_workers.
C32_AtMostMaxWorkers == Cardinality(DOMAIN pool.workers) <= pool.max_workers

\* C33: what a thread that takes no lock reads of a scheduler worker and
\* its cell while dispatch_workers runs is never a partial binding: the
\* worker is idle with no cell, or busy with a cell whose status is
\* in_progress.
C33_NoPartialBinding ==
    \A w \in DOMAIN queen.workers :
        \/ queen.workers[w].state = "idle" /\ queen.workers[w].cell_id = <<>>
        \/ /\ queen.workers[w].state = "busy"
           /\ queen.workers[w].cell_id # <<>>
           /\ queen.cells[queen.workers[w].cell_id[1]].status = "in_progress"

\* ---------------------------------------------------------------------
\* FileLock with a process that dies inside acquire or while holding the
\* lock.  The operating system closes the dead process's descriptors, which
\* drops its flock / byte lock; the lock file itself stays.

\* the process dies after it has created or opened the lock file, early
\* enough for the stale threshold to pass before the clock ends
Die(p) ==
    /\ procs[p].pc \in {"lock", "write", "held"}
    /\ \A q \in BusProcs \ {p} : procs[q].pc # "dead"
    /\ bus.now + 2 * ClockStep <= MaxClock
    /\ LockStep(p, close_lock_file(bus, p, procs[p].fd[1]), [pc |-> "dead", fd |-> <<>>])

\* the steps of process p inside acquire and release
ProcStep(p) ==
    \/ AcquireCall(p)
    \/ CleanupRead(p)
    \/ CleanupUnlink(p)
    \/ TryOpen(p)
    \/ TryLock(p)
    \/ WriteInfo(p)
    \/ \E timed_out \in BOOLEAN : Retry(p, timed_out)
    \/ Release(p)

NextLockDeath ==
    \/ \E p \in BusProcs : ProcStep(p)
    \/ \E p \in BusProcs : Die(p)
    \/ Tick

\* a live process keeps running, and time passes
SpecLockDeath ==
    /\ InitLock
    /\ [][NextLockDeath]_vars
    /\ WF_vars(Tick)
    /\ \A p \in BusProcs : WF_vars(ProcStep(p))

SomeDead == \E p \in BusProcs : procs[p].pc = "dead"

\* C34: once a process has died after creating the lock file without
\* releasing it, a process that is acquiring the lock eventually holds it.
C34_DeadLockRecovered ==
    \A q \in BusProcs : (SomeDead /\ procs[q].pc = "cleanup") ~> (procs[q].pc = "held")

\* C35: a release_worker call on a worker bound to task T invokes the
\* registered on_task_complete callback exactly once, with T's cell_id as
\* task_id and with the success flag of the call.
C35_CallbackTaskId ==
    (ReleasedBusy /\ pool_hist.before.workers[pool_call.worker_id].current_task # <<>>) =>
        LET T == pool_hist.before.workers[pool_call.worker_id].current_task[1]
        IN  /\ Len(pool_hist.callbacks) = 1
            /\ pool_hist.callbacks[1].kind = "cell"
            /\ pool_hist.callbacks[1].cell_id = T.cell_id
            /\ pool_hist.callbacks[1].success = pool_call.success

\* the ids of the nodes in a given state
IdsInState(D, state) == {u \in DOMAIN D.nodes : D.nodes[u].state = state}

\* C36: the completed, running and failed id sets hold exactly the ids of
\* the nodes whose state is completed, running and failed.
C36_TrackingSetsAgree ==
    /\ dag.completed_ids = IdsInState(dag, "completed")
    /\ dag.running_ids = IdsInState(dag, "running")
    /\ dag.failed_ids = IdsInState(dag, "failed")

\* the number of layers that list u, each occurrence counted
RECURSIVE CountInLayers(_, _)
CountInLayers(layers, u) ==
    IF layers = <<>> THEN 0
    ELSE Count(Head(layers), u) + CountInLayers(Tail(layers), u)

\* C37: on an acyclic graph, dangling and repeated dependencies included,
\* topological_sort() and get_parallel_layers() return without error and
\* each hold every node of the graph exactly once.
C37_EveryNodeOnce ==
    ~HasCycle(dag) =>
        LET t == topological_sort(dag)
            l == get_parallel_layers(dag)
        IN  /\ t.raised = ""
            /\ l.raised = ""
            /\ \A u \in DOMAIN dag.nodes :
                   /\ Count(t.result, u) = 1
                   /\ CountInLayers(l.result, u) = 1

\* ---------------------------------------------------------------------
\* submit_task with every task submitted once.  pool_hist.submitted holds
\* the tasks passed to submit_task so far and pool_hist.bound the bindings
\* that assign_cell has made, in order.

SubmitTasks == PoolTasks \cup {WorkerTask("c", "LOW")}

\* the bindings an action's assign_cell calls have made
RECURSIVE Bindings(_)
Bindings(calls) ==
    IF calls = <<>> THEN <<>>
    ELSE (IF Head(calls).worker = <<>> THEN <<>>
          ELSE <<[task |-> Head(calls).task, worker |-> Head(calls).worker[1]]>>)
         \o Bindings(Tail(calls))

OnceStep(op, P, calls, submitted, t) ==
    /\ pool' = P
    /\ pool_call' = PoolCall(op, <<>>)
    /\ pool_hist' = [submitted |-> submitted, bound |-> pool_hist.bound \o Bindings(calls)]
    /\ threads' = t
    /\ UNCHANGED <<dagVars, queen, queen_hist, restVars>>

IdleSubmitter == [pc |-> "idle", task |-> <<>>, wait |-> FALSE]

\* submit_task up to the return of its first assign_cell
OnceSubmitTask(th, task, wait) ==
    LET r == assign_cell(pool, task)
    IN  /\ threads[th].pc = "idle"
        /\ task \notin pool_hist.submitted
        /\ OnceStep("submit_task", r.pool, <<AssignCall(pool, task, r.worker)>>,
                    pool_hist.submitted \cup {task},
                    IF r.worker # <<>> THEN threads
                    ELSE [threads EXCEPT ![th] = [pc |-> "put", task |-> <<task>>, wait |-> wait]])

\* submit_task: self.task_queue.put(task)
OnceSubmitPut(th) ==
    /\ threads[th].pc = "put"
    /\ OnceStep("submit_task.put",
                [pool EXCEPT !.task_queue = queue_put(@, threads[th].task[1])], <<>>,
                pool_hist.submitted,
                IF threads[th].wait THEN [threads EXCEPT ![th].pc = "poll"]
                ELSE [threads EXCEPT ![th] = IdleSubmitter])

\* submit_task(wait=True): one round of the polling loop
OnceSubmitPoll(th) ==
    LET task == threads[th].task[1]
        r == assign_cell(pool, task)
    IN  /\ threads[th].pc = "poll"
        /\ OnceStep("submit_task.poll", r.pool, <<AssignCall(pool, task, r.worker)>>,
                    pool_hist.submitted,
                    IF r.worker # <<>> THEN [threads EXCEPT ![th] = IdleSubmitter]
                    ELSE [threads EXCEPT ![th].pc = "sleep"])

\* submit_task(wait=True): after time.sleep(1) the loop goes on, or its 60 s are over
OnceSubmitWake(th, timed_out) ==
    /\ threads[th].pc = "sleep"
    /\ OnceStep("submit_task.sleep", pool, <<>>, pool_hist.submitted,
                IF timed_out THEN [threads EXCEPT ![th] = IdleSubmitter]
                ELSE [threads EXCEPT ![th].pc = "poll"])

\* release_worker on a worker that has finished its task
OnceReleaseWorker(worker_id, success) ==
    LET r == release_worker(pool, worker_id, success)
    IN  /\ worker_id \in DOMAIN pool.workers
        /\ pool.workers[worker_id].state = "busy"
        /\ OnceStep("release_worker", r.pool, r.calls, pool_hist.submitted, threads)

OnceTaskStealing ==
    LET r == task_stealing(pool)
    IN  OnceStep("task_stealing", r.pool, r.calls, pool_hist.submitted, threads)

InitSubmit ==
    /\ DagInit
    /\ pool = NewPool(MinWorkers, MaxWorkers)
    /\ pool_call = PoolCall("init", <<>>)
    /\ pool_hist = [submitted |-> {}, bound |-> <<>>]
    /\ threads = [th \in PoolThreads |-> IdleSubmitter]
    /\ queen = <<>>
    /\ queen_hist = <<>>

NextSubmit ==
    \/ \E th \in PoolThreads, task \in SubmitTasks, wait \in BOOLEAN :
           OnceSubmitTask(th, task, wait)
    \/ \E th \in PoolThreads : OnceSubmitPut(th)
    \/ \E th \in PoolThreads : OnceSubmitPoll(th)
    \/ \E th \in PoolThreads, timed_out \in BOOLEAN : OnceSubmitWake(th, timed_out)
    \/ \E worker_id \in 1..MaxWorkers, success \in BOOLEAN :
           OnceReleaseWorker(worker_id, success)
    \/ OnceTaskStealing

SpecSubmit == InitSubmit /\ [][NextSubmit]_vars

\* the workers that hold task T
HoldersOf(P, T) == {w \in DOMAIN P.workers : P.workers[w].current_task = <<T>>}

InTaskQueue(P, T) == Contains(P.task_queue[T.priority], T)

\* C38: a task passed once to submit_task is never in the task queue and
\* bound to a worker at the same time, is never bound to two workers, and
\* is bound at most once over its lifetime.
C38_BoundAtMostOnce ==
    \A T \in pool_hist.submitted :
        /\ ~(InTaskQueue(pool, T) /\ HoldersOf(pool, T) # {})
        /\ Cardinality(HoldersOf(pool, T)) <= 1
        /\ Cardinality({i \in 1..Len(pool_hist.bound) : pool_hist.bound[i].task = T}) <= 1

\* ---------------------------------------------------------------------
\* Agent processes of the scheduler.  run_cell hands (worker_id, cell) to
\* _execute_cell_task on the executor; the task keeps that worker id until
\* its process exits, whatever happens to the worker meanwhile.
\* queen_hist.procs holds the (worker, cell) pairs of the processes that
\* run, queen_hist.last the last call and, after a process exit,
\* queen_hist.before the cell store when _execute_cell_task went on.

MaxAgents == 2        \* most agent processes running at one time

AgentProcess(worker_id, cell_id) == [worker_id |-> worker_id, cell_id |-> cell_id]

ExitStep(Q, running, last) ==
    /\ queen' = Q
    /\ queen_hist' = [procs |-> running, last |-> last,
                      before |-> IF last.op = "execute_cell_task" THEN queen.cells ELSE <<>>]
    /\ UNCHANGED <<dagVars, poolVars, threads, restVars>>

\* run_cell(cell_id, background=True)
ExitRunCell(cell_id) ==
    LET r == run_cell(queen, cell_id)
    IN  /\ r.worker # <<>>
        /\ AgentProcess(r.worker[1], cell_id) \notin queen_hist.procs
        /\ Cardinality(queen_hist.procs) < MaxAgents
        /\ ExitStep(r.queen, queen_hist.procs \cup {AgentProcess(r.worker[1], cell_id)},
                    TaskLast("run_cell", r.worker[1], cell_id, ""))

ExitDispatchWorkers ==
    ExitStep(dispatch_workers(queen), queen_hist.procs, TaskLast("dispatch_workers", 0, "", ""))

\* the rest of _execute_cell_task once the agent process has ended
ExitProcess(proc, outcome) ==
    /\ proc \in queen_hist.procs
    /\ ExitStep(execute_cell_task_end(queen, proc.worker_id, outcome),
                queen_hist.procs \ {proc},
                TaskLast("execute_cell_task", proc.worker_id, proc.cell_id, outcome))

ExitHandleBlocker(cell_id) ==
    ExitStep(handle_blocker(queen, cell_id), queen_hist.procs,
             TaskLast("handle_blocker", 0, cell_id, ""))

ExitResolveBlocker(cell_id) ==
    ExitStep(resolve_blocker(queen, cell_id), queen_hist.procs,
             TaskLast("resolve_blocker", 0, cell_id, ""))

InitCellExit ==
    /\ DagInit
    /\ pool = <<>> /\ pool_call = <<>> /\ pool_hist = <<>>
    /\ threads = <<>>
    /\ queen = queen_start(NewQueen(MaxQueenWorkers,
                   [c \in CellIds |-> [status |-> "pending",
                                       dependencies |-> IF c = "c" THEN <<"a">> ELSE <<>>]],
                   <<"a", "b", "c">>))
    /\ queen_hist = [procs |-> {}, last |-> TaskLast("start", 0, "", ""), before |-> <<>>]

NextCellExit ==
    \/ \E c \in CellIds : ExitRunCell(c)
    \/ ExitDispatchWorkers
    \/ \E w \in QueenWorkerIds, c \in CellIds, o \in Outcomes :
           ExitProcess(AgentProcess(w, c), o)
    \/ \E c \in CellIds : ExitHandleBlocker(c)
    \/ \E c \in CellIds : ExitResolveBlocker(c)

SpecCellExit == InitCellExit /\ [][NextCellExit]_vars

\* C39: the exit of the agent process launched for a cell changes the
\* store status of no other cell.
C39_ExitTouchesOwnCell ==
    queen_hist.last.op = "execute_cell_task" =>
        \A c \in DOMAIN queen.cells \ {queen_hist.last.cell_id} :
            queen.cells[c].status = queen_hist.before[c].status

\* ---------------------------------------------------------------------
\* DroneValidator.validate_cell.  One validation of a cell: the outcomes
\* of the commands and file scans are the inputs, the report is computed
\* from them as _validate_technical, _validate_strategic,
\* _validate_security and _calculate_consensus compute it.

MaxSecrets == 2       \* most (file, pattern) pairs with a hardcoded secret

ValidationDimension == {"technical", "strategic", "security"}

\* DIMENSION_WEIGHTS, in hundredths
DIMENSION_WEIGHTS == [technical |-> 40, strategic |-> 35, security |-> 25]

SCORE_PENALTIES == [critical |-> 30, high |-> 20, medium |-> 10, low |-> 5]

Issue(type, severity) == [type |-> type, severity |-> severity]

Max0(n) == IF n < 0 THEN 0 ELSE n

\* _apply_penalties: the base score less the penalty of every issue, floored at 0
RECURSIVE apply_penalties(_, _)
apply_penalties(base_score, issues) ==
    IF issues = <<>> THEN Max0(base_score)
    ELSE apply_penalties(base_score - SCORE_PENALTIES[Head(issues).severity], Tail(issues))

\* _validate_technical: lint, typecheck and test are the success flags of
\* the three commands
validate_technical(lint, typecheck, test) ==
    LET issues == (IF lint THEN <<>> ELSE <<Issue("lint_error", "high")>>)
                  \o (IF typecheck THEN <<>> ELSE <<Issue("type_error", "high")>>)
                  \o (IF test THEN <<>> ELSE <<Issue("test_failure", "medium")>>)
        passed_checks == 3 - Len(issues)
        base_score == (passed_checks * 100) \div 3
    IN  [dimension |-> "technical",
         passed |-> passed_checks = 3,
         score |-> apply_penalties(base_score, issues),
         issues |-> issues]

\* _validate_strategic: cell_config is "not_found", "outputs_present" or
\* "outputs_missing"; complexity_score is what _check_code_complexity returns
validate_strategic(cell_config, complexity_score) ==
    LET missing == cell_config = "outputs_missing"
        complex == complexity_score < 70
        score == 100
                 - (IF missing THEN SCORE_PENALTIES.high ELSE 0)
                 - (IF cell_config = "not_found" THEN SCORE_PENALTIES.low ELSE 0)
                 - (IF complex THEN SCORE_PENALTIES.medium ELSE 0)
        issues == (IF missing THEN <<Issue("missing_outputs", "high")>> ELSE <<>>)
                  \o (IF complex THEN <<Issue("high_complexity", "medium")>> ELSE <<>>)
    IN  [dimension |-> "strategic",
         passed |-> score >= 80,
         score |-> Max0(score),
         issues |-> issues]

\* _validate_security: secrets is the number of (file, pattern) pairs that
\* match a sensitive pattern; audit is "passed", "vulnerabilities" (the
\* command failed and its output names vulnerabilities) or "failed"
validate_security(secrets, audit) ==
    LET exposures == [i \in 1..secrets |-> Issue("sensitive_data_exposure", "critical")]
        vulnerable == audit = "vulnerabilities"
        score == 100 - secrets * SCORE_PENALTIES.critical
                 - (IF vulnerable THEN SCORE_PENALTIES.high ELSE 0)
        issues == exposures
                  \o (IF vulnerable THEN <<Issue("dependency_vulnerability", "high")>> ELSE <<>>)
    IN  [dimension |-> "security",
         passed |-> score >= 80 /\ ~\E i \in 1..Len(issues) : issues[i].severity = "critical",
         score |-> Max0(score),
         issues |-> issues]

RECURSIVE WeightedSum(_, _)
WeightedSum(results, dims) ==
    IF dims = {} THEN 0
    ELSE LET d == CHOOSE x \in dims : TRUE
         IN  results[d].score * DIMENSION_WEIGHTS[d] + WeightedSum(results, dims \ {d})

RECURSIVE TotalWeight(_)
TotalWeight(dims) ==
    IF dims = {} THEN 0
    ELSE LET d == CHOOSE x \in dims : TRUE
         IN  DIMENSION_WEIGHTS[d] + TotalWeight(dims \ {d})

\* total_score / total_weight is a binary64 quotient.  Over the scores the
\* three validations can return it lies in the same unit interval as the
\* exact quotient except in one case: 90 * 0.35 is 31.499999999999996, and
\* with a technical score of 0 over the weight 0.75 the quotient is
\* 41.99999999999999 where the exact quotient is 42.
Binary64Shortfall(results) ==
    IF /\ DOMAIN results = {"technical", "strategic"}
       /\ results["technical"].score = 0
       /\ results["strategic"].score = 90
    THEN 1 ELSE 0

\* _calculate_consensus: int(total_score / total_weight), 0 without weight
calculate_consensus(results) ==
    LET dims == DOMAIN results
    IN  IF TotalWeight(dims) > 0
        THEN WeightedSum(results, dims) \div TotalWeight(dims) - Binary64Shortfall(results)
        ELSE 0

\* the report of validate_cell for the dimensions asked for
validation_report(in) ==
    LET all == [technical |-> validate_technical(in.lint, in.typecheck, in.test),
                strategic |-> validate_strategic(in.cell_config, in.complexity_score),
                security |-> validate_security(in.secrets, in.audit)]
        results == [d \in in.dimensions |-> all[d]]
        consensus_score == calculate_consensus(results)
    IN  [dimensions |-> results,
         consensus_score |-> consensus_score,
         consensus_reached |-> consensus_score >= CONSENSUS_THRESHOLD,
         threshold |-> CONSENSUS_THRESHOLD]

ValidationInputs ==
    [dimensions : SUBSET ValidationDimension,
     lint : BOOLEAN, typecheck : BOOLEAN, test : BOOLEAN,
     cell_config : {"not_found", "outputs_present", "outputs_missing"},
     complexity_score : {65, 70, 100},
     secrets : 0..MaxSecrets,
     audit : {"passed", "vulnerabilities", "failed"}]

ValidateCell ==
    /\ drone.report = <<>>
    /\ drone' = [drone EXCEPT !.report = <<validation_report(drone.input)>>]
    /\ UNCHANGED <<dagVars, poolVars, queenVars, bus, procs>>

InitValidate ==
    /\ dag = NewDAG /\ dag_call = Call("init", "") /\ dag_ok = TRUE
    /\ IdleRest
    /\ bus = <<>> /\ procs = <<>>
    /\ \E in \in ValidationInputs : drone = [input |-> in, report |-> <<>>]

NextValidate == ValidateCell

SpecValidate == InitValidate /\ [][NextValidate]_vars

\* C40: whenever validate_cell reports consensus_reached = true, every
\* validated dimension has passed = true; a report with a critical
\* security issue or a failed technical subcheck never reaches consensus.
C40_ConsensusMeansAllPassed ==
    (drone.report # <<>> /\ drone.report[1].consensus_reached) =>
        \A d \in DOMAIN drone.report[1].dimensions : drone.report[1].dimensions[d].passed

====
